---- MODULE Spec2Model ----
(***************************************************************************)
(* A model of duplicate_track_finder.py: the text normalisers, the         *)
(* metadata extractor, the parallel scan pipeline, the grouping engine,    *)
(* the survivor selector and the delete flow.                              *)
(*                                                                         *)
(* A Python str is modelled as a sequence of characters, each character a  *)
(* one-element token: "a", " ", ",", ... ; a character outside ASCII has a *)
(* token that names it ("e_acute", "dotless_i", "backslash", "dquote").    *)
(***************************************************************************)
EXTENDS Integers, Sequences, FiniteSets, TLC

(***************************************************************************)
(* Characters                                                              *)
(***************************************************************************)

\* str.lower() on one character: the cased characters of the model.
LowerOf ==
    [c \in {"A", "B", "C", "D", "E", "F", "G", "H", "I", "J", "K", "L", "M",
            "N", "O", "P", "Q", "R", "S", "T", "U", "V", "W", "X", "Y", "Z",
            "E_acute", "A_acute"} |->
        CASE c = "A" -> "a" [] c = "B" -> "b" [] c = "C" -> "c" [] c = "D" -> "d"
          [] c = "E" -> "e" [] c = "F" -> "f" [] c = "G" -> "g" [] c = "H" -> "h"
          [] c = "I" -> "i" [] c = "J" -> "j" [] c = "K" -> "k" [] c = "L" -> "l"
          [] c = "M" -> "m" [] c = "N" -> "n" [] c = "O" -> "o" [] c = "P" -> "p"
          [] c = "Q" -> "q" [] c = "R" -> "r" [] c = "S" -> "s" [] c = "T" -> "t"
          [] c = "U" -> "u" [] c = "V" -> "v" [] c = "W" -> "w" [] c = "X" -> "x"
          [] c = "Y" -> "y" [] c = "Z" -> "z" [] c = "E_acute" -> "e_acute"
          [] c = "A_acute" -> "a_acute"]

\* The upper-case (title-case) form of a lower-case character. The dotless i
\* is a lower-case letter of its own whose upper case is the plain "I".
UpperOf ==
    [c \in {"a", "b", "c", "d", "e", "f", "g", "h", "i", "j", "k", "l", "m",
            "n", "o", "p", "q", "r", "s", "t", "u", "v", "w", "x", "y", "z",
            "e_acute", "a_acute", "dotless_i"} |->
        CASE c = "a" -> "A" [] c = "b" -> "B" [] c = "c" -> "C" [] c = "d" -> "D"
          [] c = "e" -> "E" [] c = "f" -> "F" [] c = "g" -> "G" [] c = "h" -> "H"
          [] c = "i" -> "I" [] c = "j" -> "J" [] c = "k" -> "K" [] c = "l" -> "L"
          [] c = "m" -> "M" [] c = "n" -> "N" [] c = "o" -> "O" [] c = "p" -> "P"
          [] c = "q" -> "Q" [] c = "r" -> "R" [] c = "s" -> "S" [] c = "t" -> "T"
          [] c = "u" -> "U" [] c = "v" -> "V" [] c = "w" -> "W" [] c = "x" -> "X"
          [] c = "y" -> "Y" [] c = "z" -> "Z" [] c = "e_acute" -> "E_acute"
          [] c = "a_acute" -> "A_acute" [] c = "dotless_i" -> "I"]

\* The characters outside ASCII: encode('ascii', 'ignore') drops them.
NonAscii == {"e_acute", "E_acute", "a_acute", "A_acute", "combining_acute",
             "dotless_i", "en_dash", "em_dash"}

\* The characters of the model in code-point order (what sorted() compares).
CodePointOrder ==
    <<" ", "dquote", "&", "'", "(", ")", "+", ",", "-", ".", "/", ":", ";",
      "A", "B", "C", "D", "E", "F", "G", "H", "I", "J", "K", "L", "M",
      "N", "O", "P", "Q", "R", "S", "T", "U", "V", "W", "X", "Y", "Z",
      "[", "backslash", "]", "backtick",
      "a", "b", "c", "d", "e", "f", "g", "h", "i", "j", "k", "l", "m",
      "n", "o", "p", "q", "r", "s", "t", "u", "v", "w", "x", "y", "z",
      "|", "A_acute", "E_acute", "a_acute", "e_acute", "dotless_i",
      "combining_acute", "en_dash", "em_dash">>

ord(c) ==
    CHOOSE i \in 1..Len(CodePointOrder) : CodePointOrder[i] = c

IsSpace(c) == c = " "

IsCased(c) == c \in DOMAIN LowerOf \/ c \in DOMAIN UpperOf

lowerChar(c) == IF c \in DOMAIN LowerOf THEN LowerOf[c] ELSE c

upperChar(c) == IF c \in DOMAIN UpperOf THEN UpperOf[c] ELSE c

(***************************************************************************)
(* str and re helpers                                                      *)
(***************************************************************************)

\* The members of a sequence.
Range(s) == {s[n] : n \in 1..Len(s)}

\* s[i:] of Python, with i a 1-based position of the model.
From(s, i) == SubSeq(s, i, Len(s))

\* Whether s holds the characters of w from position i on.
StartsAt(s, i, w) ==
    /\ i + Len(w) - 1 <= Len(s)
    /\ \A k \in 1..Len(w) : s[i + k - 1] = w[k]

\* The first position >= i that holds no whitespace (Len(s) + 1 if none).
SkipSpaces(s, i) ==
    IF \E k \in i..Len(s) : ~IsSpace(s[k])
    THEN CHOOSE k \in i..Len(s) :
            ~IsSpace(s[k]) /\ \A m \in i..(k - 1) : IsSpace(s[m])
    ELSE Len(s) + 1

\* str.lower()
lower(s) == [i \in 1..Len(s) |-> lowerChar(s[i])]

\* str.strip(): whitespace off both ends.
strip(s) ==
    LET a == SkipSpaces(s, 1)
    IN  IF a > Len(s) THEN <<>>
        ELSE LET b == CHOOSE k \in a..Len(s) :
                        ~IsSpace(s[k]) /\ \A m \in (k + 1)..Len(s) : IsSpace(s[m])
             IN  SubSeq(s, a, b)

\* str.strip(','): commas off both ends.
stripCommas(s) ==
    IF \A k \in 1..Len(s) : s[k] = "," THEN <<>>
    ELSE LET a == CHOOSE k \in 1..Len(s) :
                    s[k] # "," /\ \A m \in 1..(k - 1) : s[m] = ","
             b == CHOOSE k \in 1..Len(s) :
                    s[k] # "," /\ \A m \in (k + 1)..Len(s) : s[m] = ","
         IN  SubSeq(s, a, b)

\* The characters of s that are not in the set drop, in order.
RECURSIVE Without(_, _)
Without(s, drop) ==
    IF s = <<>> THEN <<>>
    ELSE IF Head(s) \in drop THEN Without(Tail(s), drop)
         ELSE <<Head(s)>> \o Without(Tail(s), drop)

\* str.replace(a, b) for single characters.
replaceChar(s, a, b) == [i \in 1..Len(s) |-> IF s[i] = a THEN b ELSE s[i]]

\* re.sub(r'\s+', ' ', s): every run of whitespace becomes one space.
RECURSIVE CollapseSpaces(_)
CollapseSpaces(s) ==
    IF s = <<>> THEN <<>>
    ELSE IF IsSpace(Head(s))
         THEN <<" ">> \o CollapseSpaces(From(s, SkipSpaces(s, 1)))
         ELSE <<Head(s)>> \o CollapseSpaces(Tail(s))

\* The precomposed character of a base letter followed by a combining acute.
AcuteOf ==
    [c \in {"a", "e", "A", "E"} |->
        CASE c = "a" -> "a_acute" [] c = "e" -> "e_acute"
          [] c = "A" -> "A_acute" [] c = "E" -> "E_acute"]

\* unicodedata.normalize('NFKC', s): a base letter followed by a combining
\* mark is composed into the one accented character.
RECURSIVE NFKC(_)
NFKC(s) ==
    IF Len(s) < 2 THEN s
    ELSE IF s[1] \in DOMAIN AcuteOf /\ s[2] = "combining_acute"
         THEN <<AcuteOf[s[1]]>> \o NFKC(From(s, 3))
         ELSE <<s[1]>> \o NFKC(Tail(s))

\* s.encode('ascii', 'ignore').decode('ascii')
AsciiIgnore(s) == Without(s, NonAscii)

\* Lexicographic order of two strings by code point (str.__lt__).
RECURSIVE StrLess(_, _)
StrLess(s, t) ==
    IF t = <<>> THEN FALSE
    ELSE IF s = <<>> THEN TRUE
         ELSE IF Head(s) = Head(t) THEN StrLess(Tail(s), Tail(t))
              ELSE ord(Head(s)) < ord(Head(t))

\* sorted(S) for a set of strings.
RECURSIVE sorted(_)
sorted(S) ==
    IF S = {} THEN <<>>
    ELSE LET m == CHOOSE x \in S : \A y \in S \ {x} : StrLess(x, y)
         IN  <<m>> \o sorted(S \ {m})

\* sep.join(parts)
RECURSIVE join(_, _)
join(sep, parts) ==
    IF parts = <<>> THEN <<>>
    ELSE IF Len(parts) = 1 THEN parts[1]
         ELSE parts[1] \o sep \o join(sep, Tail(parts))

\* s.split(','): the pieces between the commas, empty pieces included.
RECURSIVE split(_)
split(s) ==
    IF \A k \in 1..Len(s) : s[k] # "," THEN <<s>>
    ELSE LET c == CHOOSE k \in 1..Len(s) :
                    s[k] = "," /\ \A m \in 1..(k - 1) : s[m] # ","
         IN  <<SubSeq(s, 1, c - 1)>> \o split(From(s, c + 1))

(***************************************************************************)
(* MetadataHandler.normalize_artists                                       *)
(***************************************************************************)

\* The words of the patterns, as character sequences.
W_and == <<"a", "n", "d">>
W_feat == <<"f", "e", "a", "t">>
W_ft == <<"f", "t">>
W_vs == <<"v", "s">>
W_versus == <<"v", "e", "r", "s", "u", "s">>
W_x == <<"x">>
W_with == <<"w", "i", "t", "h">>
W_featuring == <<"f", "e", "a", "t", "u", "r", "i", "n", "g">>

\* re.sub(r'[;,\s]+$', '', s): the trailing run of ; , and whitespace goes.
RECURSIVE StripTrailingDelimiters(_)
StripTrailingDelimiters(s) ==
    IF s = <<>> THEN <<>>
    ELSE IF s[Len(s)] \in {";", ",", " "}
         THEN StripTrailingDelimiters(SubSeq(s, 1, Len(s) - 1))
         ELSE s

\* re.sub(r'\s*[&+/\\|]\s*', ',', s): a symbol delimiter and the whitespace
\* around it become one comma.
RECURSIVE SymbolDelimiters(_)
SymbolDelimiters(s) ==
    IF s = <<>> THEN <<>>
    ELSE LET k == SkipSpaces(s, 1)
         IN  IF k <= Len(s) /\ s[k] \in {"&", "+", "/", "backslash", "|"}
             THEN <<",">> \o SymbolDelimiters(From(s, SkipSpaces(s, k + 1)))
             ELSE <<Head(s)>> \o SymbolDelimiters(Tail(s))

\* The position just after the word w matched at position k of s by the
\* pattern w, or w\.? when dotted, with \s+ to follow; 0 when there is no
\* match. The optional period is tried first (greedy), then left out.
WordEnd(s, k, w, dotted) ==
    IF ~StartsAt(s, k, w) THEN 0
    ELSE LET e == k + Len(w)
         IN  IF dotted /\ e + 1 <= Len(s) /\ s[e] = "." /\ IsSpace(s[e + 1])
             THEN e + 1
             ELSE IF e <= Len(s) /\ IsSpace(s[e]) THEN e ELSE 0

\* The alternation (and|feat\.?|ft\.?|vs\.?|versus|x|with) followed by \s+,
\* tried at position k in this order: the position of the whitespace after
\* the first alternative that matches, or 0.
DelimiterWordEnd(s, k) ==
    LET alts == << <<W_and, FALSE>>, <<W_feat, TRUE>>, <<W_ft, TRUE>>,
                   <<W_vs, TRUE>>, <<W_versus, FALSE>>, <<W_x, FALSE>>,
                   <<W_with, FALSE>> >>
        hits == {n \in 1..Len(alts) : WordEnd(s, k, alts[n][1], alts[n][2]) > 0}
    IN  IF hits = {} THEN 0
        ELSE LET n == CHOOSE a \in hits : \A b \in hits : a <= b
             IN  WordEnd(s, k, alts[n][1], alts[n][2])

\* re.sub(r'\s+(and|feat\.?|ft\.?|vs\.?|versus|x|with)\s+', ',', s)
RECURSIVE WordDelimiters(_)
WordDelimiters(s) ==
    IF s = <<>> THEN <<>>
    ELSE IF IsSpace(Head(s))
            /\ DelimiterWordEnd(s, SkipSpaces(s, 1)) > 0
         THEN <<",">> \o WordDelimiters(
                  From(s, SkipSpaces(s, DelimiterWordEnd(s, SkipSpaces(s, 1)))))
         ELSE <<Head(s)>> \o WordDelimiters(Tail(s))

\* re.sub(r',+', ',', s)
RECURSIVE CollapseCommas(_)
CollapseCommas(s) ==
    IF s = <<>> THEN <<>>
    ELSE IF Head(s) = "," /\ Len(s) >= 2 /\ s[2] = ","
         THEN CollapseCommas(Tail(s))
         ELSE <<Head(s)>> \o CollapseCommas(Tail(s))

\* re.sub(r'\s*,\s*', ',', s)
RECURSIVE TrimAroundCommas(_)
TrimAroundCommas(s) ==
    IF s = <<>> THEN <<>>
    ELSE LET k == SkipSpaces(s, 1)
         IN  IF k <= Len(s) /\ s[k] = ","
             THEN <<",">> \o TrimAroundCommas(From(s, SkipSpaces(s, k + 1)))
             ELSE <<Head(s)>> \o TrimAroundCommas(Tail(s))

\* re.sub(r'^(feat\.?|ft\.?|featuring)\s+', '', s)
StripLeadingFeat(s) ==
    LET alts == << <<W_feat, TRUE>>, <<W_ft, TRUE>>, <<W_featuring, FALSE>> >>
        hits == {n \in 1..Len(alts) : WordEnd(s, 1, alts[n][1], alts[n][2]) > 0}
    IN  IF hits = {} THEN s
        ELSE LET n == CHOOSE a \in hits : \A b \in hits : a <= b
             IN  From(s, SkipSpaces(s, WordEnd(s, 1, alts[n][1], alts[n][2])))

\* re.sub(r'\s+(feat\.?|ft\.?|featuring).*$', '', s): from the first run of
\* whitespace that one of the words follows, everything to the end goes.
StripTrailingFeat(s) ==
    LET at == {i \in 1..Len(s) :
                  /\ IsSpace(s[i])
                  /\ \/ StartsAt(s, SkipSpaces(s, i), W_feat)
                     \/ StartsAt(s, SkipSpaces(s, i), W_ft)
                     \/ StartsAt(s, SkipSpaces(s, i), W_featuring)}
    IN  IF at = {} THEN s
        ELSE SubSeq(s, 1, (CHOOSE i \in at : \A j \in at : i <= j) - 1)

\* re.sub(r'\s*\([^)]*\)', '', s): a parenthesis up to the first closing one,
\* with the whitespace before it.
RECURSIVE StripParenthetical(_)
StripParenthetical(s) ==
    IF s = <<>> THEN <<>>
    ELSE LET k == SkipSpaces(s, 1)
         IN  IF k <= Len(s) /\ s[k] = "(" /\ \E c \in (k + 1)..Len(s) : s[c] = ")"
             THEN LET c == CHOOSE c \in (k + 1)..Len(s) :
                             s[c] = ")" /\ \A m \in (k + 1)..(c - 1) : s[m] # ")"
                  IN  StripParenthetical(From(s, c + 1))
             ELSE <<Head(s)>> \o StripParenthetical(Tail(s))

\* Lines 153-170: what the loop does to one piece of the split.
CleanArtistPiece(piece) ==
    LET a1 == strip(piece)
        a2 == StripLeadingFeat(a1)
        a3 == StripTrailingFeat(a2)
        a4 == StripParenthetical(a3)
        a5 == strip(CollapseSpaces(a4))
        a6 == Without(a5, {"dquote", "'", "backtick"})
        a7 == replaceChar(Without(a6, {"."}), "-", " ")
    IN  IF a1 = <<>> THEN <<>> ELSE strip(CollapseSpaces(a7))

\* Lines 112-142: the string before it is split.
CleanArtistString(artist_str) ==
    LET c1 == strip(lower(artist_str))
        c2 == AsciiIgnore(NFKC(c1))
        c3 == StripTrailingDelimiters(c2)
        c4 == replaceChar(c3, ";", ",")
        c5 == SymbolDelimiters(c4)
        c6 == WordDelimiters(c5)
        c7 == TrimAroundCommas(CollapseCommas(c6))
    IN  strip(stripCommas(c7))

\* Lines 147-173: the names of the pieces of the cleaned string.
ArtistNames(cleaned) ==
    IF cleaned = <<>> THEN {}
    ELSE {CleanArtistPiece(piece) : piece \in Range(split(cleaned))} \ {<<>>}

\* normalize_artists(artist_str): the set of artist names.
normalize_artists(artist_str) ==
    IF artist_str = <<>> THEN {}
    ELSE ArtistNames(CleanArtistString(artist_str))

(***************************************************************************)
(* DuplicateDetector.group_by_metadata: extract_base_title, str.title      *)
(***************************************************************************)

\* The version words of the pattern at line 476, in its order.
VersionWords ==
    << <<"e", "x", "t", "e", "n", "d", "e", "d">>,
       <<"r", "a", "d", "i", "o">>,
       <<"c", "l", "u", "b">>,
       <<"o", "r", "i", "g", "i", "n", "a", "l">>,
       <<"v", "o", "c", "a", "l">>,
       <<"i", "n", "s", "t", "r", "u", "m", "e", "n", "t", "a", "l">>,
       <<"a", "c", "o", "u", "s", "t", "i", "c">>,
       <<"r", "e", "m", "i", "x">>,
       <<"m", "i", "x">>,
       <<"e", "d", "i", "t">>,
       <<"v", "e", "r", "s", "i", "o", "n">>,
       <<"d", "u", "b">> >>

\* re.sub(r'\s*[\(\[].*?[\)\]]', '', s): an opening parenthesis or bracket up
\* to the first closing one of either kind, with the whitespace before it.
RECURSIVE StripBracketed(_)
StripBracketed(s) ==
    IF s = <<>> THEN <<>>
    ELSE LET k == SkipSpaces(s, 1)
         IN  IF /\ k <= Len(s)
                /\ s[k] \in {"(", "["}
                /\ \E c \in (k + 1)..Len(s) : s[c] \in {")", "]"}
             THEN LET c == CHOOSE c \in (k + 1)..Len(s) :
                             /\ s[c] \in {")", "]"}
                             /\ \A m \in (k + 1)..(c - 1) : s[m] \notin {")", "]"}
                  IN  StripBracketed(From(s, c + 1))
             ELSE <<Head(s)>> \o StripBracketed(Tail(s))

\* Whether \s*[-dash]\s*(extended|radio|...) matches at position i of s.
VersionSuffixAt(s, i) ==
    LET k == SkipSpaces(s, i)
    IN  /\ k <= Len(s)
        /\ s[k] \in {"-", "en_dash", "em_dash"}
        /\ \E n \in 1..Len(VersionWords) :
              StartsAt(s, SkipSpaces(s, k + 1), VersionWords[n])

\* re.sub(r'\s*[-dash]\s*(extended|radio|...).*$', '', s)
StripVersionSuffix(s) ==
    LET at == {i \in 1..Len(s) : VersionSuffixAt(s, i)}
    IN  IF at = {} THEN s
        ELSE SubSeq(s, 1, (CHOOSE i \in at : \A j \in at : i <= j) - 1)

\* extract_base_title(title)
extract_base_title(title) ==
    IF title = <<>> THEN <<>>
    ELSE strip(CollapseSpaces(
             StripVersionSuffix(StripBracketed(strip(lower(title))))))

\* str.title(): a cased character is made upper case when the character
\* before it is not cased, lower case when it is.
title(s) ==
    [i \in 1..Len(s) |->
        IF i > 1 /\ IsCased(s[i - 1]) THEN lowerChar(s[i]) ELSE upperChar(s[i])]

\* ', '.join(sorted(S))
SortedJoin(S) == join(<<",", " ">>, sorted(S))

(***************************************************************************)
(* Paths and the files behind them                                         *)
(***************************************************************************)

\* The paths of the model, in the order find_audio_files lists them. Two of
\* them share a file name in different directories.
PathList ==
    <<"d1/t1.mp3", "d1/t2.flac", "d2/t1.mp3", "d1/t3.wav", "d2/t4.mp3",
      "d1/t5.mp3">>

Paths == {PathList[n] : n \in 1..Len(PathList)}

\* Path(p).name
PathName(p) ==
    CASE p = "d1/t1.mp3" -> "t1.mp3" [] p = "d1/t2.flac" -> "t2.flac"
      [] p = "d2/t1.mp3" -> "t1.mp3" [] p = "d1/t3.wav" -> "t3.wav"
      [] p = "d2/t4.mp3" -> "t4.mp3" [] p = "d1/t5.mp3" -> "t5.mp3"
      [] OTHER -> p

\* Path(p).suffix.lower()
PathSuffix(p) ==
    CASE p = "d1/t2.flac" -> ".flac" [] p = "d1/t3.wav" -> ".wav"
      [] p \in {"d1/t1.mp3", "d2/t1.mp3", "d2/t4.mp3", "d1/t5.mp3"} -> ".mp3"
      [] OTHER -> ""

\* get_audio_quality_indicator(file_path)
get_audio_quality_indicator(p) ==
    IF PathSuffix(p) \in {".flac", ".wav", ".aiff", ".dsd", ".ape"}
    THEN "Lossless" ELSE "Lossy"

\* The string 'Unknown'.
Unknown == <<"U", "n", "k", "n", "o", "w", "n">>

\* The decimal digits of a natural number, as characters.
DigitChars == <<"0", "1", "2", "3", "4", "5", "6", "7", "8", "9">>

RECURSIVE Digits(_)
Digits(n) ==
    IF n < 10 THEN <<DigitChars[n + 1]>>
    ELSE Digits(n \div 10) \o <<DigitChars[(n % 10) + 1]>>

\* format_timestamp(timestamp): a timestamp is a number of half seconds and
\* the string shows whole seconds (written here as the count of seconds). A
\* timestamp the platform cannot convert (here: a negative one) gives
\* 'Unknown'.
format_timestamp(timestamp) ==
    IF timestamp < 0 THEN Unknown ELSE Digits(timestamp \div 2)

\* round(num / den) of Python 3 for non-negative integers: to the nearest
\* integer, a tie to the even one.
RoundHalfEven(num, den) ==
    LET q == num \div den
        r == num % den
    IN  IF 2 * r < den THEN q
        ELSE IF 2 * r > den THEN q + 1
             ELSE IF q % 2 = 0 THEN q ELSE q + 1

\* meta.get(key, default)
Get(meta, key, default) == IF key \in DOMAIN meta THEN meta[key] ELSE default

\* dict.update: the keys of new replace or extend those of meta.
Update(meta, new) ==
    [k \in DOMAIN meta \cup DOMAIN new |->
        IF k \in DOMAIN new THEN new[k] ELSE meta[k]]

\* safe_path(path_str) returns a path, or lets an exception through: on
\* Windows resolve() can raise an error that is neither OSError nor
\* ValueError (a symlink loop raises RuntimeError).
safe_path_raises(w, system) == system = "Windows" /\ w.resolve = "runtime_error"

(***************************************************************************)
(* MetadataHandler.extract_comprehensive_artists                           *)
(***************************************************************************)

\* What one of the three blocks makes of the value of its field: the sorted
\* join of the normalised names. It is empty when the value is empty, is
\* only whitespace or normalises to no name; the block then returns nothing
\* and the next block runs.
FromField(value) == SortedJoin(normalize_artists(strip(value)))

\* The first of three strings that is not empty (the empty string if none).
FirstNonEmpty(a, b, c) ==
    IF a # <<>> THEN a ELSE IF b # <<>> THEN b ELSE c

extract_comprehensive_artists(tag) ==
    FirstNonEmpty(FromField(tag.artist), FromField(tag.albumartist),
                  FromField(tag.composer))

(***************************************************************************)
(* MetadataHandler.extract_file_metadata                                   *)
(***************************************************************************)

\* f"{minutes}:{seconds:02d}" for a duration in half seconds.
FormatDuration(duration) ==
    LET minutes == (duration \div 2) \div 60
        seconds == (duration \div 2) % 60
    IN  Digits(minutes) \o <<":">>
        \o (IF seconds < 10 THEN <<"0">> ELSE <<>>) \o Digits(seconds)

\* float('nan') among the numbers of a tag.
NotANumber == 0 - 1

\* The record of the outer except block (lines 327-333).
FailureRecord(file_path_str, error) ==
    [file_path |-> file_path_str, filename |-> PathName(file_path_str),
     error |-> error, success |-> FALSE]

\* The record built at lines 249-264.
InitialMetadata(file_path_str) ==
    [file_path |-> file_path_str, filename |-> PathName(file_path_str),
     size_mb |-> 0, size_bytes |-> 0, duration_formatted |-> <<>>,
     quality |-> get_audio_quality_indicator(file_path_str),
     modified_date |-> Unknown, created_date |-> Unknown,
     title |-> <<>>, contributing_artists |-> <<>>, album_artist |-> <<>>,
     raw_artists |-> <<>>, normalized_artists_debug |-> <<>>,
     success |-> TRUE]

\* Lines 267-286: the stat of the file. It raises an OSError when the file
\* is gone or w.stat says so.
WithStat(metadata, w, system) ==
    IF w.stat = "oserror" \/ ~w.exists
    THEN Update(metadata, [file_error |-> "OSError", success |-> FALSE])
    ELSE LET created == IF system = "Windows" THEN w.ctime
                        ELSE IF w.has_birthtime THEN w.birthtime ELSE w.mtime
         IN  Update(metadata,
                 [size_bytes |-> w.size_bytes,
                  size_mb |-> RoundHalfEven(w.size_bytes, 1024 * 1024),
                  modified |-> w.mtime,
                  modified_date |-> format_timestamp(w.mtime),
                  created |-> created,
                  created_date |-> format_timestamp(created)])

\* Lines 296-301: the two debug fields.
WithDebugFields(metadata, comprehensive_artists) ==
    Update(metadata,
        [raw_artists |-> comprehensive_artists,
         normalized_artists_debug |->
             SortedJoin(normalize_artists(comprehensive_artists))])

\* Lines 303-317: the tag fields.
WithTagFields(metadata, tag, comprehensive_artists) ==
    Update(metadata,
        [title |-> tag.title,
         contributing_artists |-> comprehensive_artists,
         album_artist |-> tag.albumartist,
         album |-> tag.album, year |-> tag.year, genre |-> tag.genre,
         duration |-> tag.duration, bitrate |-> tag.bitrate,
         samplerate |-> tag.samplerate, channels |-> tag.channels,
         artist |-> comprehensive_artists])

\* Lines 319-322: the formatted duration.
WithDuration(metadata, tag) ==
    IF tag.duration = NotANumber
    THEN Update(metadata, [metadata_error |-> "ValueError"])
    ELSE IF tag.duration # 0
         THEN Update(metadata,
                  [duration_formatted |-> FormatDuration(tag.duration)])
         ELSE metadata

\* Lines 296-322, with the artists of line 294 and the debug fields set.
AfterDebugFields(m1, tag, comprehensive_artists) ==
    IF tag.bitrate = NotANumber
    THEN Update(m1, [metadata_error |-> "ValueError"])
    ELSE WithDuration(WithTagFields(m1, tag, comprehensive_artists), tag)

\* Lines 290-325: the tags. TinyTag.get raises when the file is not
\* readable as audio (w.readable is FALSE). A bitrate or a duration that is
\* not a number (NaN, written NotANumber) makes round() or int() raise inside
\* the block, after the statements before it have run.
WithTags(metadata, w) ==
    IF ~w.readable
    THEN Update(metadata, [metadata_error |-> "TinyTagException"])
    ELSE AfterDebugFields(
             WithDebugFields(metadata, extract_comprehensive_artists(w.tag)),
             w.tag, extract_comprehensive_artists(w.tag))

\* Mutant of WithTagsIfAvailable: the tags are read although the stat failed.
WithTagsAlways(metadata, w, available) ==
    IF available THEN WithTags(metadata, w) ELSE metadata

\* Lines 288-325: the tags are read when tinytag is there and the stat
\* succeeded.
WithTagsIfAvailable(metadata, w, available) ==
    IF available /\ metadata.success THEN WithTags(metadata, w) ELSE metadata

\* How the body of the outer try ends: with an exception, or with the record.
Raised(error) == [raised |-> TRUE, error |-> error]

Returned(metadata) == [raised |-> FALSE, metadata |-> metadata]

\* Lines 248-325, the body of the outer try. safe_path and os.stat can raise
\* what the handlers inside do not catch: os.stat raises ValueError for a path
\* with an embedded null character.
ExtractBody(file_path_str, w, system, available) ==
    IF safe_path_raises(w, system) THEN Raised("RuntimeError")
    ELSE IF w.stat = "valueerror" THEN Raised("ValueError")
    ELSE Returned(WithTagsIfAvailable(
                      WithStat(InitialMetadata(file_path_str), w, system),
                      w, available))

\* Lines 327-335: the outer handler and the return.
HandleOutcome(file_path_str, outcome) ==
    IF outcome.raised THEN FailureRecord(file_path_str, outcome.error)
    ELSE outcome.metadata

\* extract_file_metadata(file_path_str), for the file w behind the path.
extract_file_metadata(file_path_str, w, system, available) ==
    HandleOutcome(file_path_str,
                  ExtractBody(file_path_str, w, system, available))

(***************************************************************************)
(* DuplicateDetector.group_by_metadata                                     *)
(***************************************************************************)

\* Lines 486-495: a record that failed, or has no title or no path, is
\* skipped before anything is computed from it.
HasTitleAndPath(meta) ==
    /\ Get(meta, "success", FALSE)
    /\ Get(meta, "title", <<>>) # <<>>
    /\ Get(meta, "file_path", "") # ""

\* Lines 497-506: the entry of file_info_list for a record.
FileInfo(meta) ==
    [file_path |-> Get(meta, "file_path", ""),
     base_title |-> extract_base_title(Get(meta, "title", <<>>)),
     artists |-> normalize_artists(Get(meta, "contributing_artists", <<>>))]

\* Mutant of HasKey: an entry with a base title is appended whatever its
\* artists.
HasKey_AnyArtists(file_info) == file_info.base_title # <<>>

\* Line 500: the entry is appended when neither part of the key is empty.
HasKey(file_info) == file_info.base_title # <<>> /\ file_info.artists # {}

\* Lines 486-506, for one record: whether it gets an entry of file_info_list.
PassesPreprocessing(meta) == HasTitleAndPath(meta) /\ HasKey(FileInfo(meta))

\* First pass (lines 483-510).
RECURSIVE file_info_list(_)
file_info_list(files_metadata) ==
    IF files_metadata = <<>> THEN <<>>
    ELSE (IF PassesPreprocessing(Head(files_metadata))
          THEN <<FileInfo(Head(files_metadata))>> ELSE <<>>)
         \o file_info_list(Tail(files_metadata))

\* Mutant of Matches: the artist sets must be equal, an overlap is not enough.
Matches_EqualArtists(file1, file2) ==
    file1.base_title = file2.base_title /\ file1.artists = file2.artists

\* Mutant of Matches: the titles are not compared.
Matches_AnyTitle(file1, file2) ==
    \/ Cardinality(file1.artists \cap file2.artists) > 0
    \/ file1.artists \subseteq file2.artists
    \/ file2.artists \subseteq file1.artists

\* Lines 528-537: the test that lets file2 join the group of file1.
Matches(file1, file2) ==
    LET titles_match == file1.base_title = file2.base_title
        artists_overlap == Cardinality(file1.artists \cap file2.artists) > 0
        artists_subset == \/ file1.artists \subseteq file2.artists
                          \/ file2.artists \subseteq file1.artists
    IN  titles_match /\ (artists_overlap \/ artists_subset)

\* The positions of a set of positions, in ascending order.
RECURSIVE Ascending(_)
Ascending(S) ==
    IF S = {} THEN <<>>
    ELSE LET m == CHOOSE x \in S : \A y \in S : x <= y
         IN  <<m>> \o Ascending(S \ {m})

\* Mutant of KeepsGroup: a group of one file is kept too.
KeepsGroup_Single(current_group) == Len(current_group) >= 1

\* Line 548: whether current_group becomes a group.
KeepsGroup(current_group) == Len(current_group) >= 2

\* Mutant of Joined: a candidate joins when it matches every member the
\* group has so far (members holds them), from position j on.
RECURSIVE CliqueFrom(_, _, _, _)
CliqueFrom(info, members, j, grouped) ==
    IF j > Len(info) THEN {}
    ELSE IF j \notin grouped /\ \A m \in members : Matches(info[m], info[j])
         THEN {j} \cup CliqueFrom(info, members \cup {j}, j + 1, grouped)
         ELSE CliqueFrom(info, members, j + 1, grouped)

Joined_Pairwise(info, i, grouped) == CliqueFrom(info, {i}, i + 1, grouped)

\* Mutant of Joined: a candidate is compared with the member that joined
\* last, from position j on (last is that member).
RECURSIVE ChainFrom(_, _, _, _)
ChainFrom(info, last, j, grouped) ==
    IF j > Len(info) THEN {}
    ELSE IF j \notin grouped /\ Matches(info[last], info[j])
         THEN {j} \cup ChainFrom(info, j, j + 1, grouped)
         ELSE ChainFrom(info, last, j + 1, grouped)

Joined_Chained(info, i, grouped) == ChainFrom(info, i, i + 1, grouped)

\* Lines 522-539: the later entries that join the group of entry i: those
\* not yet grouped that match entry i.
Joined(info, i, grouped) ==
    {j \in (i + 1)..Len(info) : j \notin grouped /\ Matches(info[i], info[j])}

\* Mutant of MarkGrouped: only the first file of a group is marked.
MarkGrouped_AnchorOnly(grouped, i, joined) == grouped \cup {i}

\* Lines 520 and 539: the 'grouped' flags after the pass of entry i.
MarkGrouped(grouped, i, joined) == grouped \cup {i} \cup joined

\* The group of entry i: the entry, then those that joined, in list order.
CurrentGroup(i, joined) == <<i>> \o Ascending(joined)

\* Line 548, for the pass of entry i.
WithGroup(groups, current_group) ==
    IF KeepsGroup(current_group) THEN Append(groups, current_group)
    ELSE groups

\* Second pass (lines 512-549), from position i on: grouped holds the
\* positions of the entries whose 'grouped' flag is set, groups the groups
\* appended so far, each a sequence of positions of file_info_list.
RECURSIVE second_pass(_, _, _, _)
second_pass(info, i, grouped, groups) ==
    IF i > Len(info) THEN groups
    ELSE IF i \in grouped THEN second_pass(info, i + 1, grouped, groups)
         ELSE second_pass(info, i + 1,
                  MarkGrouped(grouped, i, Joined(info, i, grouped)),
                  WithGroup(groups,
                            CurrentGroup(i, Joined(info, i, grouped))))

\* The groups of the second pass, as sequences of positions of the list.
FormedGroups(info) == second_pass(info, 1, {}, <<>>)

\* Line 556: the name of a group, from its first file.
group_name(first_file) ==
    title(first_file.base_title) \o <<" ", "-", " ">>
    \o SortedJoin(first_file.artists)

\* result[key] = value on a dict kept as a sequence of <<key, value>> in
\* insertion order: a key that is there keeps its place and gets the value.
DictSet(dict, key, value) ==
    IF \E n \in 1..Len(dict) : dict[n][1] = key
    THEN [n \in 1..Len(dict) |->
             IF dict[n][1] = key THEN <<key, value>> ELSE dict[n]]
    ELSE Append(dict, <<key, value>>)

\* Lines 552-558: the groups into the result dict, from group number g on.
RECURSIVE to_result(_, _, _, _)
to_result(info, groups, g, result) ==
    IF g > Len(groups) THEN result
    ELSE to_result(info, groups, g + 1,
             DictSet(result, group_name(info[groups[g][1]]),
                 [n \in 1..Len(groups[g]) |-> info[groups[g][n]].file_path]))

\* group_by_metadata(files_metadata)
group_by_metadata(files_metadata) ==
    LET info == file_info_list(files_metadata)
    IN  to_result(info, FormedGroups(info), 1, <<>>)

(***************************************************************************)
(* State                                                                   *)
(***************************************************************************)

VARIABLES
    disk,                \* path -> the file behind it (what stat, TinyTag and os.remove find)
    system,              \* platform.system()
    METADATA_AVAILABLE,  \* whether tinytag was imported (lines 25-29)
    ex_path,             \* extract_file_metadata: the argument of the call
    ex_result,           \* extract_file_metadata: <<>> before the call, <<record>> after
    na_arg,              \* normalize_artists: the argument of the call
    na_result,           \* normalize_artists: <<>> before the call, <<set>> after
    files_metadata,      \* the records handed to group_by_metadata
    duplicate_groups,    \* self.duplicate_groups: the dict group_by_metadata returned
    gpc,                 \* the scan: where _scan_worker and its callbacks are
    file_paths,          \* process_files_parallel: the argument
    ppc,                 \* process_files_parallel: where the call is
    pool,                \* the ProcessPoolExecutor: "none", "running", "broken", "failed", "shutdown"
    fut,                 \* future_to_path: submitted path -> state of its future
    metadata_list,       \* process_files_parallel: metadata_list
    completed,           \* process_files_parallel: completed
    progress,            \* the calls of progress_callback: <<completed, total>>
    run_result,          \* process_files_parallel: <<>> before the return, <<list>> after
    tree,                \* self.tree with self.item_data: the group items and their file items
    selected_files,      \* self.selected_files
    dpc,                 \* delete_selected: where the call is
    backup,              \* the backup list file: <<>> if not written, <<lines>> if written
    to_delete,           \* delete_files: the paths the loop has not reached yet
    deleted_count,       \* delete_files: deleted_count
    failed_deletions,    \* delete_files: failed_deletions
    removed,             \* the paths os.remove has removed
    scan_button,         \* self.scan_button's state: "normal" or "disabled"
    status_var,          \* self.status_var: the message of the status line
    scan_threads,        \* the threads of _scan_worker that have not returned
    thread_pcs,          \* where each of these threads stands in _scan_worker
    after_queue,         \* the callbacks handed to root.after that have not run
    scans_started,       \* history: how many threads scan_duplicates has started
    shown_scans,         \* history: the scans whose groups stand in the tree
    stored_scan,         \* history: the scan that set self.duplicate_groups (0: none)
    metadata_text        \* self.metadata_text: what on_tree_select last wrote

envVars == <<disk, system, METADATA_AVAILABLE>>
extractVars == <<ex_path, ex_result, na_arg, na_result>>
groupVars == <<files_metadata, duplicate_groups, gpc>>
pipelineVars ==
    <<file_paths, ppc, pool, fut, metadata_list, completed, progress, run_result>>
uiVars == <<tree, selected_files>>
deleteVars == <<dpc, backup, to_delete, deleted_count, failed_deletions, removed>>
widgetVars ==
    <<scan_button, scan_threads, thread_pcs, after_queue, scans_started,
      shown_scans, stored_scan, metadata_text>>
windowVars == <<status_var, widgetVars>>
vars ==
    <<envVars, extractVars, groupVars, pipelineVars, uiVars, deleteVars,
      windowVars>>

\* The most files of a scan.
MaxFiles == 4

\* The first n paths of the listing.
FirstPaths(n) == {PathList[k] : k \in 1..n}

FileCounts == {n \in 0..MaxFiles : n <= Len(PathList)}

(***************************************************************************)
(* Files                                                                   *)
(***************************************************************************)

\* What TinyTag.get returns; a missing field (None) is the empty string or 0.
Tag(t, artist, albumartist, composer, duration) ==
    [title |-> t, artist |-> artist, albumartist |-> albumartist,
     composer |-> composer, album |-> <<>>, year |-> <<>>, genre |-> <<>>,
     duration |-> duration, bitrate |-> 320, samplerate |-> 44100,
     channels |-> 2]

\* A readable audio file with the given tag and size; durations and
\* timestamps are in half seconds.
AudioFile(tag, size_bytes) ==
    [exists |-> TRUE, resolve |-> "ok", stat |-> "ok", remove |-> "ok",
     size_bytes |-> size_bytes, mtime |-> 21, ctime |-> 20,
     has_birthtime |-> FALSE, birthtime |-> 20, readable |-> TRUE,
     tag |-> tag]

MiB == 1024 * 1024

S_I == <<"I">>
S_I_x == <<"I", " ", "(", "x", ")">>
S_dotless == <<"dotless_i">>
S_x == <<"(", "x", ")">>
S_A == <<"A">>
S_B == <<"B">>
S_A_and_B == <<"A", " ", "&", " ", "B">>
S_dash == <<"-">>
S_space == <<" ">>
S_A_feat_B == <<"A", " ", "f", "e", "a", "t", ".", " ", "B">>

\* The files of the grouping scans: titles with one base title ("i"), a title
\* whose title-cased base title is the same although the base title differs
\* (the dotless i), a title that is only an annotation, artists that overlap
\* pairwise but not all three, an artist that normalises to nothing, and a
\* file whose stat fails.
GroupWorlds ==
    { AudioFile(Tag(S_I, S_A, <<>>, <<>>, 400), 4 * MiB),
      AudioFile(Tag(S_I_x, S_A_and_B, <<>>, <<>>, 400), 4 * MiB),
      AudioFile(Tag(S_I, S_B, <<>>, <<>>, 400), 4 * MiB),
      AudioFile(Tag(S_dotless, S_A, <<>>, <<>>, 400), 4 * MiB),
      AudioFile(Tag(S_x, S_A, <<>>, <<>>, 400), 4 * MiB),
      AudioFile(Tag(S_I, S_dash, <<>>, <<>>, 400), 4 * MiB),
      [AudioFile(Tag(S_I, S_A, <<>>, <<>>, 400), 4 * MiB)
          EXCEPT !.stat = "oserror"] }

(***************************************************************************)
(* The scan that feeds group_by_metadata                                   *)
(***************************************************************************)

\* _process_files_sequential(paths): one record per path, in order.
process_files_sequential(paths) ==
    [n \in 1..Len(paths) |->
        extract_file_metadata(paths[n], disk[paths[n]], system,
                              METADATA_AVAILABLE)]

ExtractIdle ==
    ex_path = "" /\ ex_result = <<>> /\ na_arg = <<>> /\ na_result = <<>>

\* No call of process_files_parallel has started.
PipelineIdle ==
    /\ file_paths = <<>>
    /\ ppc = "idle"
    /\ pool = "none"
    /\ fut = <<>>
    /\ metadata_list = <<>>
    /\ completed = 0
    /\ progress = <<>>
    /\ run_result = <<>>

\* The window right after __init__: an empty tree, nothing selected.
UiIdle == tree = <<>> /\ selected_files = {}

\* The widgets as setup_ui leaves them (lines 708 and 812-813): the scan
\* button can be pressed, no thread runs, no callback waits.
WindowIdle ==
    /\ scan_button = "normal"
    /\ status_var = "Ready"
    /\ scan_threads = <<>>
    /\ thread_pcs = <<>>
    /\ after_queue = <<>>
    /\ scans_started = 0
    /\ shown_scans = {}
    /\ stored_scan = 0
    /\ metadata_text = <<>>

\* No call of delete_selected has started.
DeleteIdle ==
    /\ dpc = "idle"
    /\ backup = <<>>
    /\ to_delete = {}
    /\ deleted_count = 0
    /\ failed_deletions = <<>>
    /\ removed = {}

GroupInit ==
    /\ \E n \in FileCounts : disk \in [FirstPaths(n) -> GroupWorlds]
    /\ system = "Linux"
    /\ METADATA_AVAILABLE = TRUE
    /\ files_metadata = <<>>
    /\ duplicate_groups = <<>>
    /\ gpc = "start"
    /\ ExtractIdle
    /\ PipelineIdle
    /\ UiIdle
    /\ DeleteIdle
    /\ WindowIdle

\* find_audio_files(directory): the paths of the files that are there, in
\* the order of the listing.
find_audio_files ==
    SelectSeq(PathList, LAMBDA p : p \in DOMAIN disk /\ disk[p].exists)

\* _scan_worker, lines 861-877: the files found and their records; without
\* files the scan is complete (lines 863-865).
ScanFiles ==
    /\ gpc = "start"
    /\ files_metadata' = process_files_sequential(find_audio_files)
    /\ gpc' = IF find_audio_files = <<>> THEN "complete" ELSE "scanned"
    /\ UNCHANGED <<windowVars, envVars, extractVars, duplicate_groups, pipelineVars, uiVars,
                   deleteVars>>

\* _scan_worker, lines 881-884: the grouping.
GroupDuplicates ==
    /\ gpc = "scanned"
    /\ duplicate_groups' = group_by_metadata(files_metadata)
    /\ gpc' = "grouped"
    /\ UNCHANGED <<windowVars, envVars, extractVars, files_metadata, pipelineVars, uiVars,
                   deleteVars>>

GroupNext == ScanFiles \/ GroupDuplicates

SpecGroup == GroupInit /\ [][GroupNext]_vars

(***************************************************************************)
(* Properties of the grouping (checked under SpecGroup)                    *)
(***************************************************************************)

\* The base title and the artist set group_by_metadata computes for a record.
BaseTitleOf(meta) == extract_base_title(Get(meta, "title", <<>>))

ArtistSetOf(meta) == normalize_artists(Get(meta, "contributing_artists", <<>>))

\* The member lists of the groups of the result.
EmittedGroups == {duplicate_groups[n][2] : n \in 1..Len(duplicate_groups)}

\* Whether records i and j of the input are members of one emitted group.
InSameEmittedGroup(i, j) ==
    \E G \in EmittedGroups :
        files_metadata[i].file_path \in Range(G)
        /\ files_metadata[j].file_path \in Range(G)

\* The position in file_info_list of record i of the input (a passing one).
InfoPosition(i) ==
    Cardinality({k \in 1..i : PassesPreprocessing(files_metadata[k])})

\* Records i < j that pass preprocessing, with equal base titles and artist
\* sets that intersect.
OverlappingPair(i, j) ==
    /\ i < j
    /\ PassesPreprocessing(files_metadata[i])
    /\ PassesPreprocessing(files_metadata[j])
    /\ BaseTitleOf(files_metadata[i]) = BaseTitleOf(files_metadata[j])
    /\ ArtistSetOf(files_metadata[i]) \cap ArtistSetOf(files_metadata[j]) # {}

ClaimedBefore(i, j) ==
    LET formed == FormedGroups(file_info_list(files_metadata))
    IN  \E g \in 1..Len(formed) :
            /\ formed[g][1] < InfoPosition(i)
            /\ {InfoPosition(i), InfoPosition(j)} \cap Range(formed[g]) # {}

\* Whether a group formed after the one anchored at record i gets the same
\* name, and so takes its place in the result.
NameTakenLater(i) ==
    LET info == file_info_list(files_metadata)
        formed == FormedGroups(info)
    IN  \E g \in 1..Len(formed) :
            /\ formed[g][1] > InfoPosition(i)
            /\ group_name(info[formed[g][1]]) = group_name(info[InfoPosition(i)])

C2_OneBaseTitlePerGroup ==
    gpc = "grouped" =>
        \A i, j \in 1..Len(files_metadata) :
            BaseTitleOf(files_metadata[i]) # BaseTitleOf(files_metadata[j])
                => ~InSameEmittedGroup(i, j)

\* C2 witness: a result with a group, from a list that holds two passing
\* records with different base titles and a common artist.
C2_Witness ==
    /\ gpc = "grouped"
    /\ duplicate_groups # <<>>
    /\ \E i, j \in 1..Len(files_metadata) :
          /\ PassesPreprocessing(files_metadata[i])
          /\ PassesPreprocessing(files_metadata[j])
          /\ BaseTitleOf(files_metadata[i]) # BaseTitleOf(files_metadata[j])
          /\ ArtistSetOf(files_metadata[i]) \cap ArtistSetOf(files_metadata[j]) # {}
          /\ \E G \in EmittedGroups : files_metadata[i].file_path \in Range(G)

\* Whether some later record could join a group anchored at record i: it
\* passes preprocessing, has the base title of i and an artist in common.
HasLaterMatch(i) ==
    \E j \in (i + 1)..Len(files_metadata) :
        /\ PassesPreprocessing(files_metadata[j])
        /\ BaseTitleOf(files_metadata[i]) = BaseTitleOf(files_metadata[j])
        /\ ArtistSetOf(files_metadata[i]) \cap ArtistSetOf(files_metadata[j]) # {}

\* C3: every group of the result has at least 2 member paths, and a record
\* that no later record matches is the first member of no group.
C3_GroupingMinimality ==
    gpc = "grouped" =>
        /\ \A G \in EmittedGroups : Len(G) >= 2
        /\ \A i \in 1..Len(files_metadata) :
              ~HasLaterMatch(i) =>
                  \A G \in EmittedGroups : G[1] # files_metadata[i].file_path

\* C3 witness: a result with a group, from a list with a passing record that
\* nothing matches and that is in no group.
C3_Witness ==
    /\ gpc = "grouped"
    /\ duplicate_groups # <<>>
    /\ \E i \in 1..Len(files_metadata) :
          /\ PassesPreprocessing(files_metadata[i])
          /\ ~HasLaterMatch(i)
          /\ \A G \in EmittedGroups : files_metadata[i].file_path \notin Range(G)

(***************************************************************************)
(* Single extractions, followed by a grouping of their records             *)
(***************************************************************************)

\* The most files of a run of extractions.
MaxExtracted == 2

ExtractCounts == {n \in 1..MaxExtracted : n <= Len(PathList)}

ExtractBase == AudioFile(Tag(S_I, S_A, S_B, <<>>, 400), 4 * MiB)

\* The files of the extractions: the three artist fields filled and empty in
\* turn, an artist that is only whitespace and one that normalises to no
\* name, a stat that raises OSError or ValueError, a path resolve() fails on,
\* a missing file, a file TinyTag cannot read, and tag values that are not
\* numbers.
ExtractWorlds ==
    { ExtractBase,
      AudioFile(Tag(S_I, <<>>, S_B, S_A, 400), 4 * MiB),
      AudioFile(Tag(S_I, <<>>, <<>>, S_A, 400), 4 * MiB),
      AudioFile(Tag(S_I, <<>>, <<>>, <<>>, 400), 4 * MiB),
      AudioFile(Tag(S_I, S_dash, S_B, <<>>, 400), 4 * MiB),
      AudioFile(Tag(S_I, S_space, <<>>, S_A_and_B, 400), 4 * MiB),
      AudioFile(Tag(S_I, S_A_feat_B, S_B, <<>>, 0), 4 * MiB),
      [ExtractBase EXCEPT !.stat = "oserror"],
      [ExtractBase EXCEPT !.stat = "oserror", !.readable = FALSE],
      [ExtractBase EXCEPT !.stat = "valueerror"],
      [ExtractBase EXCEPT !.resolve = "runtime_error"],
      [ExtractBase EXCEPT !.exists = FALSE],
      [ExtractBase EXCEPT !.readable = FALSE],
      [ExtractBase EXCEPT !.tag.bitrate = NotANumber],
      [ExtractBase EXCEPT !.tag.duration = NotANumber] }

ExtractInit ==
    /\ \E n \in ExtractCounts : disk \in [FirstPaths(n) -> ExtractWorlds]
    /\ system \in {"Linux", "Windows"}
    /\ METADATA_AVAILABLE \in BOOLEAN
    /\ files_metadata = <<>>
    /\ duplicate_groups = <<>>
    /\ gpc = "extracting"
    /\ ExtractIdle
    /\ PipelineIdle
    /\ UiIdle
    /\ DeleteIdle
    /\ WindowIdle

\* One call of extract_file_metadata, for the next path of the listing; the
\* caller keeps the record.
ExtractNextFile ==
    /\ gpc = "extracting"
    /\ Len(files_metadata) < Cardinality(DOMAIN disk)
    /\ ex_path' = PathList[Len(files_metadata) + 1]
    /\ ex_result' = <<extract_file_metadata(ex_path', disk[ex_path'], system,
                                            METADATA_AVAILABLE)>>
    /\ files_metadata' = files_metadata \o ex_result'
    /\ UNCHANGED <<windowVars, envVars, duplicate_groups, gpc, pipelineVars, uiVars,
                   deleteVars, na_arg, na_result>>

\* group_by_metadata on the records of the calls.
GroupExtracted ==
    /\ gpc = "extracting"
    /\ Len(files_metadata) = Cardinality(DOMAIN disk)
    /\ duplicate_groups' = group_by_metadata(files_metadata)
    /\ gpc' = "grouped"
    /\ UNCHANGED <<windowVars, envVars, extractVars, files_metadata, pipelineVars, uiVars,
                   deleteVars>>

ExtractNext == ExtractNextFile \/ GroupExtracted

SpecExtract == ExtractInit /\ [][ExtractNext]_vars

(***************************************************************************)
(* Properties of the extraction (checked under SpecExtract)                *)
(***************************************************************************)

\* Whether os.stat fails for the file (the call is reached and raises).
StatFails(w) ==
    ~safe_path_raises(w, system) /\ (w.stat # "ok" \/ ~w.exists)

\* Whether the record shows that TinyTag was called for it: the call leaves
\* either an error of the tag block or the tag fields.
TagDecodingAttempted(meta) ==
    \/ "metadata_error" \in DOMAIN meta
    \/ "album" \in DOMAIN meta
    \/ Get(meta, "raw_artists", <<>>) # <<>>

\* The paths of the members of the emitted groups.
GroupedPaths == UNION {Range(G) : G \in EmittedGroups}

\* C6: every call of extract_file_metadata returns a record for its path,
\* with a boolean success field; when the stat of the file fails, the record
\* has success = FALSE, no tag was decoded for it, its title and its
\* contributing artists are empty, and no emitted group has it as a member.
C6_ExtractNeverRaises ==
    /\ ex_result # <<>> =>
          /\ {"file_path", "success"} \subseteq DOMAIN ex_result[1]
          /\ ex_result[1].file_path = ex_path
          /\ ex_result[1].success \in BOOLEAN
    /\ \A n \in 1..Len(files_metadata) :
          StatFails(disk[PathList[n]]) =>
             /\ files_metadata[n].success = FALSE
             /\ ~TagDecodingAttempted(files_metadata[n])
             /\ Get(files_metadata[n], "title", <<>>) = <<>>
             /\ Get(files_metadata[n], "contributing_artists", <<>>) = <<>>
             /\ PathList[n] \notin GroupedPaths

\* A grouping has run on the records of a file whose stat failed and of a
\* file read in full.
C6_Witness ==
    /\ gpc = "grouped"
    /\ \E n \in 1..Len(files_metadata) :
          StatFails(disk[PathList[n]]) /\ ~disk[PathList[n]].readable
    /\ \E n \in 1..Len(files_metadata) :
          files_metadata[n].success /\ files_metadata[n].title # <<>>

\* The raw values of the three artist fields of a tag, in priority order.
RawArtistFields(tag) == <<tag.artist, tag.albumartist, tag.composer>>

\* The positions of the fields whose raw value is not empty.
NonEmptyFields(tag) == {k \in 1..3 : RawArtistFields(tag)[k] # <<>>}

\* The first field whose raw value is not empty (0 when all are empty).
FirstNonEmptyField(tag) ==
    IF NonEmptyFields(tag) = {} THEN 0
    ELSE CHOOSE k \in NonEmptyFields(tag) : \A m \in NonEmptyFields(tag) : k <= m

\* C10: the contributing artists of a record whose tags were read are built
\* from exactly one field, the first of artist, album artist and composer
\* whose raw value is not empty (they are empty when all three are), so that
\* the album artist is used only when the artist field is empty and the
\* composer only when both are; the names never come from two fields.
C10_ArtistFieldPriority ==
    \A n \in 1..Len(files_metadata) :
        "album" \in DOMAIN files_metadata[n] =>
            LET tag == disk[PathList[n]].tag
                first == FirstNonEmptyField(tag)
                names == normalize_artists(files_metadata[n].contributing_artists)
            IN  /\ first = 0 => files_metadata[n].contributing_artists = <<>>
                /\ first # 0 =>
                      files_metadata[n].contributing_artists
                          = SortedJoin(normalize_artists(
                                strip(RawArtistFields(tag)[first])))
                /\ \E k \in 1..3 :
                      names \subseteq
                          normalize_artists(strip(RawArtistFields(tag)[k]))

(***************************************************************************)
(* FileOperations.process_files_parallel                                   *)
(***************************************************************************)

\* The most paths of a call.
MaxPaths == 2

PathCounts == {n \in 0..MaxPaths : n <= Len(PathList)}

\* The files of the calls: one read in full, one whose stat raises OSError,
\* one whose stat raises ValueError.
PipelineWorlds ==
    { ExtractBase,
      [ExtractBase EXCEPT !.stat = "oserror"],
      [ExtractBase EXCEPT !.stat = "valueerror"] }

\* The paths as_completed has yielded so far.
Collected == {metadata_list[n].file_path : n \in 1..Len(metadata_list)}

\* Mutant of SequentialProgress: the index of enumerate is passed as it is.
SequentialProgress_FromZero(paths) ==
    [n \in 1..Len(paths) |-> <<n - 1, Len(paths)>>]

\* The calls of progress_callback of _process_files_sequential.
SequentialProgress(paths) == [n \in 1..Len(paths) |-> <<n, Len(paths)>>]

\* The text of the exception future.result() raises.
ExceptionOf(state) ==
    IF state = "broken" THEN "BrokenProcessPool" ELSE "TaskError"

\* Mutant of CollectOne: once the task of one file has raised, every future
\* is turned into a failure record.
CollectOne_FailsAll(path, state) ==
    IF state = "returned" /\ \A q \in DOMAIN fut : fut[q] # "raised"
    THEN extract_file_metadata(path, disk[path], system, METADATA_AVAILABLE)
    ELSE FailureRecord(path, ExceptionOf(state))

\* Lines 381-390: what the loop appends for a finished future. result()
\* returns the record of the task, or raises what the task raised, or
\* BrokenProcessPool when a worker process died before the task finished.
CollectOne(path, state) ==
    IF state = "returned"
    THEN extract_file_metadata(path, disk[path], system, METADATA_AVAILABLE)
    ELSE FailureRecord(path, ExceptionOf(state))

PipelineInit ==
    /\ \E n \in PathCounts :
          /\ disk \in [FirstPaths(n) -> PipelineWorlds]
          /\ file_paths = SubSeq(PathList, 1, n)
    /\ system = "Linux"
    /\ METADATA_AVAILABLE = TRUE
    /\ ppc = "start"
    /\ pool = "none"
    /\ fut = <<>>
    /\ metadata_list = <<>>
    /\ completed = 0
    /\ progress = <<>>
    /\ run_result = <<>>
    /\ files_metadata = <<>>
    /\ duplicate_groups = <<>>
    /\ gpc = "start"
    /\ ExtractIdle
    /\ UiIdle
    /\ DeleteIdle
    /\ WindowIdle

\* Lines 396-399: the outer handler, and the sequential run it returns.
Fallback ==
    /\ run_result' = <<process_files_sequential(file_paths)>>
    /\ progress' = progress \o SequentialProgress(file_paths)
    /\ ppc' = "done"

\* Lines 359-360: no paths.
ReturnEmpty ==
    /\ ppc = "start"
    /\ file_paths = <<>>
    /\ run_result' = << <<>> >>
    /\ ppc' = "done"
    /\ UNCHANGED <<windowVars, envVars, extractVars, groupVars, uiVars, deleteVars, pool,
                   fut, metadata_list, completed, progress, file_paths>>

\* Line 369: the pool is created.
CreatePool ==
    /\ ppc = "start"
    /\ file_paths # <<>>
    /\ pool' = "running"
    /\ ppc' = "submitting"
    /\ UNCHANGED <<windowVars, envVars, extractVars, groupVars, uiVars, deleteVars, fut,
                   metadata_list, completed, progress, run_result, file_paths>>

\* Line 369: the constructor raises (no semaphores, too many workers).
CreatePoolFails ==
    /\ ppc = "start"
    /\ file_paths # <<>>
    /\ pool' = "failed"
    /\ Fallback
    /\ UNCHANGED <<windowVars, envVars, extractVars, groupVars, uiVars, deleteVars, fut,
                   metadata_list, completed, file_paths>>

\* Lines 371-374: the next path is submitted.
SubmitNext ==
    /\ ppc = "submitting"
    /\ pool = "running"
    /\ fut' = fut @@ (file_paths[Cardinality(DOMAIN fut) + 1] :> "running")
    /\ ppc' = IF Cardinality(DOMAIN fut') = Len(file_paths)
              THEN "collecting" ELSE "submitting"
    /\ UNCHANGED <<windowVars, envVars, extractVars, groupVars, uiVars, deleteVars, pool,
                   metadata_list, completed, progress, run_result, file_paths>>

\* Lines 371-374: submit raises (the pool is broken, or a worker process
\* cannot be started); the with statement shuts the pool down.
SubmitFails ==
    /\ ppc = "submitting"
    /\ pool' = "failed"
    /\ Fallback
    /\ UNCHANGED <<windowVars, envVars, extractVars, groupVars, uiVars, deleteVars, fut,
                   metadata_list, completed, file_paths>>

\* A worker finishes the task of a path: extract_file_metadata returned.
TaskReturns ==
    /\ pool = "running"
    /\ \E p \in DOMAIN fut :
          /\ fut[p] = "running"
          /\ fut' = [fut EXCEPT ![p] = "returned"]
    /\ UNCHANGED <<windowVars, envVars, extractVars, groupVars, uiVars, deleteVars, pool,
                   ppc, metadata_list, completed, progress, run_result,
                   file_paths>>

\* The task of a path raises in its worker (its argument or its result
\* cannot be pickled); the exception is kept in the future of that path.
TaskRaises ==
    /\ pool = "running"
    /\ \E p \in DOMAIN fut :
          /\ fut[p] = "running"
          /\ fut' = [fut EXCEPT ![p] = "raised"]
    /\ UNCHANGED <<windowVars, envVars, extractVars, groupVars, uiVars, deleteVars, pool,
                   ppc, metadata_list, completed, progress, run_result,
                   file_paths>>

\* A worker process dies: the pool is broken, and every future that has not
\* finished gets BrokenProcessPool as its exception.
WorkerDies ==
    /\ pool = "running"
    /\ pool' = "broken"
    /\ fut' = [p \in DOMAIN fut |->
                  IF fut[p] = "running" THEN "broken" ELSE fut[p]]
    /\ UNCHANGED <<windowVars, envVars, extractVars, groupVars, uiVars, deleteVars, ppc,
                   metadata_list, completed, progress, run_result, file_paths>>

\* Lines 377-394: one round of the loop over as_completed.
CollectNext ==
    /\ ppc = "collecting"
    /\ \E p \in DOMAIN fut \ Collected :
          /\ fut[p] # "running"
          /\ metadata_list' = Append(metadata_list, CollectOne(p, fut[p]))
    /\ completed' = completed + 1
    /\ progress' = Append(progress, <<completed', Len(file_paths)>>)
    /\ UNCHANGED <<windowVars, envVars, extractVars, groupVars, uiVars, deleteVars, pool,
                   ppc, fut, run_result, file_paths>>

\* Line 401: every future was yielded; the pool is shut down and the list
\* returned.
ReturnList ==
    /\ ppc = "collecting"
    /\ Collected = DOMAIN fut
    /\ pool' = IF pool = "broken" THEN "broken" ELSE "shutdown"
    /\ run_result' = <<metadata_list>>
    /\ ppc' = "done"
    /\ UNCHANGED <<windowVars, envVars, extractVars, groupVars, uiVars, deleteVars, fut,
                   metadata_list, completed, progress, file_paths>>

PipelineNext ==
    \/ ReturnEmpty
    \/ CreatePool
    \/ CreatePoolFails
    \/ SubmitNext
    \/ SubmitFails
    \/ TaskReturns
    \/ TaskRaises
    \/ WorkerDies
    \/ CollectNext
    \/ ReturnList

SpecPipeline == PipelineInit /\ [][PipelineNext]_vars

(***************************************************************************)
(* Properties of the pipeline (checked under SpecPipeline)                 *)
(***************************************************************************)

\* The record extract_file_metadata returns for a path.
ExtractOf(path) ==
    extract_file_metadata(path, disk[path], system, METADATA_AVAILABLE)

\* Whether the pool failed during the call: at its creation, at a submit, or
\* by the death of a worker.
PoolFailed == pool \in {"failed", "broken"}

\* The list has one record for each path of the call.
OneRecordPerPath(result) ==
    /\ Len(result) = Len(file_paths)
    /\ \A n \in 1..Len(file_paths) :
          Cardinality({k \in 1..Len(result) :
                          result[k].file_path = file_paths[n]}) = 1

\* C4: a call of process_files_parallel returns one record for each path of
\* its argument, wherever the pool fails; when the pool failed, the records
\* are those of the sequential calls of extract_file_metadata and not failure
\* placeholders.
C4_NoLossOfResults ==
    ppc = "done" =>
        /\ OneRecordPerPath(run_result[1])
        /\ PoolFailed =>
              \A k \in 1..Len(run_result[1]) :
                  run_result[1][k] = ExtractOf(run_result[1][k].file_path)

\* C5: when the task of a file raises in the pool, the call still returns one
\* record for each path; the record of that file has success = FALSE, the
\* record of every file whose task returned is what extract_file_metadata
\* returns for it, and a record is a failure placeholder only for a file
\* whose own future ended with an exception.
C5_PerFileFaultIsolation ==
    ppc = "done" =>
        /\ OneRecordPerPath(run_result[1])
        /\ \A k \in 1..Len(run_result[1]) :
              LET record == run_result[1][k]
                  path == record.file_path
              IN  /\ (pool # "failed" /\ fut[path] = "raised") =>
                         record = FailureRecord(path, "TaskError")
                  /\ (pool # "failed" /\ fut[path] = "returned") =>
                         record = ExtractOf(path)
                  /\ record # ExtractOf(path) =>
                         /\ pool # "failed"
                         /\ fut[path] \in {"raised", "broken"}
                         /\ record.success = FALSE

\* A call has returned from the pool; the task of one file raised, the task
\* of another file returned and its record is that of a file read in full.
C5_Witness ==
    /\ ppc = "done"
    /\ pool = "shutdown"
    /\ \E p, q \in DOMAIN fut :
          /\ fut[p] = "raised"
          /\ fut[q] = "returned"
          /\ \E k \in 1..Len(run_result[1]) :
                /\ run_result[1][k].file_path = q
                /\ run_result[1][k].success
                /\ run_result[1][k].title # <<>>

(***************************************************************************)
(* The tree of results and auto_select_longest                             *)
(***************************************************************************)

\* The most files of a scan whose results are listed.
MaxListed == 3

ListedCounts == {n \in 0..MaxListed : n <= Len(PathList)}

\* The files of these scans: one title and artist with durations of 200,
\* 200.5 and 350 seconds (in half seconds) and sizes of 4, 5 and 6 MiB, a
\* file without a duration, and a file with another title.
SelectWorlds ==
    { AudioFile(Tag(S_I, S_A, <<>>, <<>>, 400), 5 * MiB),
      AudioFile(Tag(S_I, S_A, <<>>, <<>>, 401), 4 * MiB),
      AudioFile(Tag(S_I, S_A, <<>>, <<>>, 700), 4 * MiB),
      AudioFile(Tag(S_I, S_A, <<>>, <<>>, 700), 6 * MiB),
      AudioFile(Tag(S_I, S_A, <<>>, <<>>, 0), 6 * MiB),
      AudioFile(Tag(S_B, S_A, <<>>, <<>>, 400), 4 * MiB) }

\* s.split(':')
RECURSIVE SplitColon(_)
SplitColon(s) ==
    IF \A k \in 1..Len(s) : s[k] # ":" THEN <<s>>
    ELSE LET c == CHOOSE k \in 1..Len(s) :
                    s[k] = ":" /\ \A m \in 1..(k - 1) : s[m] # ":"
         IN  <<SubSeq(s, 1, c - 1)>> \o SplitColon(From(s, c + 1))

\* Whether int(s) and float(s) take the string: a run of decimal digits (the
\* strings of the tree have no sign, no spaces and no underscores).
IsNumber(s) ==
    s # <<>> /\ \A k \in 1..Len(s) : \E d \in 1..10 : s[k] = DigitChars[d]

\* The value of a decimal digit.
DigitValue(c) == (CHOOSE d \in 1..10 : DigitChars[d] = c) - 1

\* int(s) for a run of decimal digits.
RECURSIVE ParseNumber(_)
ParseNumber(s) ==
    IF s = <<>> THEN 0
    ELSE 10 * ParseNumber(SubSeq(s, 1, Len(s) - 1)) + DigitValue(s[Len(s)])

\* Lines 996-1003 for the parts of the string.
SecondsOfParts(parts) ==
    IF \E k \in 1..Len(parts) : ~IsNumber(parts[k]) THEN 0
    ELSE IF Len(parts) = 2
         THEN ParseNumber(parts[1]) * 60 + ParseNumber(parts[2])
         ELSE ParseNumber(parts[1]) * 3600 + ParseNumber(parts[2]) * 60
              + ParseNumber(parts[3])

\* duration_to_seconds(duration_str)
duration_to_seconds(duration_str) ==
    IF Len(SplitColon(duration_str)) \in {2, 3}
    THEN SecondsOfParts(SplitColon(duration_str))
    ELSE 0

\* Lines 1018-1021: float() of the size column, 0 on a ValueError.
SizeOfColumn(size) == IF IsNumber(size) THEN ParseNumber(size) ELSE 0

\* Lines 909-929: the rows under a group item, one for each file of the
\* group whose extraction, done again now, succeeds. The columns are kept as
\* the strings the tree holds.
RECURSIVE FileItems(_)
FileItems(files) ==
    IF files = <<>> THEN <<>>
    ELSE (IF Get(ExtractOf(Head(files)), "success", FALSE)
          THEN <<[file_path |-> Head(files),
                  length |-> ExtractOf(Head(files)).duration_formatted,
                  size |-> Digits(ExtractOf(Head(files)).size_mb),
                  metadata |-> ExtractOf(Head(files))]>>
          ELSE <<>>)
         \o FileItems(Tail(files))

\* Lines 905-929: a group item for every group of the dict.
GroupItems(duplicates) ==
    [g \in 1..Len(duplicates) |->
        [text |-> duplicates[g][1], files |-> FileItems(duplicates[g][2])]]

\* Lines 1014-1024: the tuples of files_in_group, for the rows of a group
\* item.
files_in_group(rows) ==
    [n \in 1..Len(rows) |->
        [file_path |-> rows[n].file_path,
         duration_sec |-> duration_to_seconds(rows[n].length),
         size_mb |-> SizeOfColumn(rows[n].size)]]

\* The order of the sort keys (x[2], x[3]) of line 1029.
KeyLess(a, b) ==
    \/ a.duration_sec < b.duration_sec
    \/ a.duration_sec = b.duration_sec /\ a.size_mb < b.size_mb

\* list.sort(key=..., reverse=True) is stable: x goes behind every element
\* whose key is not smaller than its own.
RECURSIVE InsertDescending(_, _)
InsertDescending(list, x) ==
    IF list = <<>> THEN <<x>>
    ELSE IF KeyLess(Head(list), x) THEN <<x>> \o list
         ELSE <<Head(list)>> \o InsertDescending(Tail(list), x)

RECURSIVE SortDescending(_, _)
SortDescending(list, done) ==
    IF list = <<>> THEN done
    ELSE SortDescending(Tail(list), InsertDescending(done, Head(list)))

\* Lines 1026-1038: the paths a group item adds to selected_files.
SelectedOfGroup(rows) ==
    IF Len(rows) <= 1 THEN {}
    ELSE {x.file_path :
             x \in Range(Tail(SortDescending(files_in_group(rows), <<>>)))}

SelectInit ==
    /\ \E n \in ListedCounts : disk \in [FirstPaths(n) -> SelectWorlds]
    /\ system = "Linux"
    /\ METADATA_AVAILABLE = TRUE
    /\ files_metadata = <<>>
    /\ duplicate_groups = <<>>
    /\ gpc = "start"
    /\ ExtractIdle
    /\ PipelineIdle
    /\ UiIdle
    /\ DeleteIdle
    /\ WindowIdle

\* A file of a group is deleted or moved by someone else, after the scan
\* has read it and before the tree is filled.
FileVanishes ==
    /\ gpc = "grouped"
    /\ \E p \in DOMAIN disk :
          /\ disk[p].exists
          /\ disk' = [disk EXCEPT ![p].exists = FALSE]
    /\ UNCHANGED <<windowVars, system, METADATA_AVAILABLE, extractVars, groupVars,
                   pipelineVars, uiVars, deleteVars>>

\* _populate_tree(duplicates), lines 897-940.
PopulateTree ==
    /\ gpc = "grouped"
    /\ tree' = GroupItems(duplicate_groups)
    /\ gpc' = "listed"
    /\ UNCHANGED <<windowVars, envVars, extractVars, files_metadata, duplicate_groups,
                   pipelineVars, selected_files, deleteVars>>

\* toggle_selection(event), lines 949-966, on a file item of the tree.
ToggleSelection ==
    /\ gpc \in {"listed", "selected"}
    /\ dpc = "idle"
    /\ \E g \in 1..Len(tree) : \E n \in 1..Len(tree[g].files) :
          selected_files' =
              IF tree[g].files[n].file_path \in selected_files
              THEN selected_files \ {tree[g].files[n].file_path}
              ELSE selected_files \cup {tree[g].files[n].file_path}
    /\ gpc' = "listed"
    /\ UNCHANGED <<windowVars, envVars, extractVars, files_metadata, duplicate_groups,
                   pipelineVars, tree, deleteVars>>

\* auto_select_longest(), lines 1007-1040.
AutoSelectLongest ==
    /\ gpc \in {"listed", "selected"}
    /\ dpc = "idle"
    /\ selected_files' =
          UNION {SelectedOfGroup(tree[g].files) : g \in 1..Len(tree)}
    /\ gpc' = "selected"
    /\ status_var' = "Auto-selected"
    /\ UNCHANGED <<widgetVars, envVars, extractVars, files_metadata,
                   duplicate_groups, pipelineVars, tree, deleteVars>>

SelectNext ==
    \/ ScanFiles
    \/ GroupDuplicates
    \/ FileVanishes
    \/ PopulateTree
    \/ ToggleSelection
    \/ AutoSelectLongest

SpecSelect == SelectInit /\ [][SelectNext]_vars

(***************************************************************************)
(* Properties of the selection (checked under SpecSelect)                  *)
(***************************************************************************)

\* The (duration, size) pair of a listed member, from its record: the
\* duration of the tag and the size in MB.
PairOf(row) == <<Get(row.metadata, "duration", 0), row.metadata.size_mb>>

PairLessEq(a, b) == a[1] < b[1] \/ (a[1] = b[1] /\ a[2] <= b[2])

\* C9: right after auto_select_longest, every group with at least 2 listed
\* members has exactly one member outside selected_files, that member has the
\* greatest (duration, size) pair of the group in lexicographic order and all
\* other members are in selected_files; a group with 0 or 1 listed member has
\* no member in selected_files.
C9_SurvivorSelection ==
    gpc = "selected" =>
        \A g \in 1..Len(tree) :
            LET rows == tree[g].files
                kept == {n \in 1..Len(rows) :
                            rows[n].file_path \notin selected_files}
            IN  /\ Len(rows) >= 2 =>
                      /\ Cardinality(kept) = 1
                      /\ \A k \in kept : \A n \in 1..Len(rows) :
                            PairLessEq(PairOf(rows[n]), PairOf(rows[k]))
                /\ Len(rows) <= 1 => Cardinality(kept) = Len(rows)

(***************************************************************************)
(* delete_selected, create_backup_list and delete_files                    *)
(***************************************************************************)

\* The most files of a scan whose results are deleted from.
MaxDeletable == 3

DeletableCounts == {n \in 0..MaxDeletable : n <= Len(PathList)}

\* The files of these scans: one title and artist; os.remove succeeds, or
\* raises PermissionError, or raises another OSError.
DeleteWorlds ==
    { ExtractBase,
      [ExtractBase EXCEPT !.remove = "permission"],
      [ExtractBase EXCEPT !.remove = "oserror"] }

\* The paths in the order of str.__lt__.
SortedPathList ==
    <<"d1/t1.mp3", "d1/t2.flac", "d1/t3.wav", "d1/t5.mp3", "d2/t1.mp3",
      "d2/t4.mp3">>

\* Lines 426-427: the lines of the backup list, one for each path, sorted.
BackupLines(files_to_delete) ==
    SelectSeq(SortedPathList, LAMBDA p : p \in files_to_delete)

\* Lines 441-449: how one round of the loop of delete_files ends for the file
\* behind a path.
RemoveOutcome(w) ==
    IF safe_path_raises(w, system) THEN "RuntimeError"
    ELSE IF ~w.exists THEN "File not found"
         ELSE IF w.remove = "permission" THEN "Permission denied"
              ELSE IF w.remove = "oserror" THEN "OSError"
                   ELSE "removed"

\* Mutant of RemainingAfter: the loop ends at the first path that cannot be
\* removed.
RemainingAfter_Aborts(remaining, path, outcome) ==
    IF outcome = "removed" THEN remaining \ {path} ELSE {}

\* Line 440: the paths the loop still has to reach after a round.
RemainingAfter(remaining, path, outcome) == remaining \ {path}

DeleteInit ==
    /\ \E n \in DeletableCounts : disk \in [FirstPaths(n) -> DeleteWorlds]
    /\ system = "Linux"
    /\ METADATA_AVAILABLE = TRUE
    /\ files_metadata = <<>>
    /\ duplicate_groups = <<>>
    /\ gpc = "start"
    /\ ExtractIdle
    /\ PipelineIdle
    /\ UiIdle
    /\ DeleteIdle
    /\ WindowIdle

\* A listed file is deleted or moved by someone else.
FileDisappears ==
    /\ gpc = "listed"
    /\ \E p \in DOMAIN disk :
          /\ disk[p].exists
          /\ disk' = [disk EXCEPT ![p].exists = FALSE]
    /\ UNCHANGED <<windowVars, system, METADATA_AVAILABLE, extractVars, groupVars,
                   pipelineVars, uiVars, deleteVars>>

\* delete_selected(), lines 1042-1061: with a selection, the operator is
\* asked and says yes.
ConfirmDeletion ==
    /\ dpc = "idle"
    /\ selected_files # {}
    /\ dpc' = "confirmed"
    /\ UNCHANGED <<windowVars, envVars, extractVars, groupVars, pipelineVars, uiVars,
                   backup, to_delete, deleted_count, failed_deletions, removed>>

\* Line 1064 with create_backup_list: the list is written, or the write
\* raises and the function returns None; delete_files is called next.
CreateBackupList ==
    /\ dpc = "confirmed"
    /\ \E written \in BOOLEAN :
          backup' = IF written THEN <<BackupLines(selected_files)>> ELSE <<>>
    /\ to_delete' = selected_files
    /\ deleted_count' = 0
    /\ failed_deletions' = <<>>
    /\ dpc' = "deleting"
    /\ UNCHANGED <<windowVars, envVars, extractVars, groupVars, pipelineVars, uiVars,
                   removed>>

\* delete_files, lines 440-451: one round of the loop, for a path of the
\* set.
RemoveNext ==
    /\ dpc = "deleting"
    /\ \E p \in to_delete :
          /\ to_delete' = RemainingAfter(to_delete, p, RemoveOutcome(disk[p]))
          /\ IF RemoveOutcome(disk[p]) = "removed"
             THEN /\ disk' = [disk EXCEPT ![p].exists = FALSE]
                  /\ removed' = removed \cup {p}
                  /\ deleted_count' = deleted_count + 1
                  /\ UNCHANGED failed_deletions
             ELSE /\ failed_deletions' =
                        Append(failed_deletions,
                               [name |-> PathName(p),
                                reason |-> RemoveOutcome(disk[p])])
                  /\ UNCHANGED <<windowVars, disk, removed, deleted_count>>
    /\ UNCHANGED <<windowVars, system, METADATA_AVAILABLE, extractVars, groupVars,
                   pipelineVars, uiVars, dpc, backup>>

\* Lines 1067-1086: delete_files has returned; the result is shown, the
\* selection cleared, and scan_duplicates clears the results and starts a
\* scan. The counts of the call are gone with it.
FinishDelete ==
    /\ dpc = "deleting"
    /\ to_delete = {}
    /\ dpc' = "idle"
    /\ backup' = <<>>
    /\ to_delete' = {}
    /\ deleted_count' = 0
    /\ failed_deletions' = <<>>
    /\ removed' = {}
    /\ selected_files' = {}
    /\ tree' = <<>>
    /\ duplicate_groups' = <<>>
    /\ files_metadata' = <<>>
    /\ gpc' = "start"
    /\ UNCHANGED <<windowVars, envVars, extractVars, pipelineVars>>

DeleteNext ==
    \/ ScanFiles
    \/ GroupDuplicates
    \/ PopulateTree
    \/ ToggleSelection
    \/ FileDisappears
    \/ ConfirmDeletion
    \/ CreateBackupList
    \/ RemoveNext
    \/ FinishDelete

SpecDelete == DeleteInit /\ [][DeleteNext]_vars

(***************************************************************************)
(* Properties of the deletion (checked under SpecDelete)                   *)
(***************************************************************************)

\* C7: during a run of delete_selected no file of the selection is removed
\* unless the backup list was written before, with every selected path in
\* it.
C7_ManifestBeforeDeletion ==
    (dpc = "deleting" /\ removed # {}) =>
        /\ backup # <<>>
        /\ selected_files \subseteq Range(backup[1])

\* The paths the loop of delete_files has reached.
Attempted == selected_files \ to_delete

\* Whether os.remove can remove the file behind a path.
Removable(w) == w.exists /\ w.remove = "ok" /\ ~safe_path_raises(w, system)

\* C8: delete_files reaches every path of the set whatever happened to the
\* paths before it; a path that was reached is removed if it can be removed,
\* and adds one failure reason (under its file name) if it cannot; when the
\* loop has ended, deleted_count plus the number of reasons is the number of
\* paths.
C8_DeletionIsolation ==
    dpc = "deleting" =>
        /\ removed \subseteq Attempted
        /\ deleted_count = Cardinality(removed)
        /\ \A p \in removed : ~disk[p].exists
        /\ \A p \in Attempted \ removed : ~Removable(disk[p])
        /\ \A p \in Attempted :
              Cardinality({n \in 1..Len(failed_deletions) :
                              failed_deletions[n].name = PathName(p)})
                 = Cardinality({q \in Attempted \ removed :
                                   PathName(q) = PathName(p)})
        /\ Len(failed_deletions) = Cardinality(Attempted \ removed)
        /\ to_delete = {} =>
              /\ Attempted = selected_files
              /\ deleted_count + Len(failed_deletions)
                    = Cardinality(selected_files)

\* The loop has ended for three paths: the first it reached was missing, a
\* later one was removed, and one could not be removed.
C8_Witness ==
    /\ dpc = "deleting"
    /\ to_delete = {}
    /\ Cardinality(selected_files) = 3
    /\ deleted_count = 1
    /\ Len(failed_deletions) = 2
    /\ failed_deletions[1].reason = "File not found"
    /\ failed_deletions[2].reason = "Permission denied"

(***************************************************************************)
(* Single calls of normalize_artists                                       *)
(***************************************************************************)

\* The most words of a plain name among the arguments.
MaxNameWords == 2

\* Plain names: up to n one-letter words, a space between them.
RECURSIVE PlainNamesOf(_)
PlainNamesOf(n) ==
    IF n = 0 THEN {}
    ELSE {<<c>> : c \in {"A", "B"}}
         \cup {name \o <<" ", c>> : name \in PlainNamesOf(n - 1), c \in {"A", "B"}}

PlainNames == PlainNamesOf(MaxNameWords)

\* What stands between two names of an artist string.
S_feat_dot == <<" ", "f", "e", "a", "t", ".", " ">>
S_Feat == <<" ", "F", "e", "a", "t", " ">>
S_ft_dot == <<" ", "f", "t", ".", " ">>
S_featuring == <<" ">> \o W_featuring \o <<" ">>

NameSeparators ==
    { S_feat_dot, S_Feat, S_ft_dot, S_featuring,
      <<" ", "&", " ">>, <<",", " ">>, <<"-", "x", "-">>,
      <<"-", "a", "n", "d", "-">> }

\* One name with an accented letter, in its spellings: composed, upper case,
\* decomposed (the letter and a combining accent), and without the accent.
AccentedNames ==
    { <<"B", "e_acute">>, <<"B", "E_acute">>, <<"b", "e_acute">>,
      <<"B", "e", "combining_acute">>, <<"B", "e">>, <<"b", "e">> }

\* The arguments of the calls.
NormalizeArguments ==
    PlainNames \cup AccentedNames
    \cup {P \o sep \o Q : P \in PlainNames, Q \in PlainNames,
                          sep \in NameSeparators}

NormalizeInit ==
    /\ na_arg \in NormalizeArguments
    /\ na_result = <<>>
    /\ ex_path = ""
    /\ ex_result = <<>>
    /\ disk = <<>>
    /\ system = "Linux"
    /\ METADATA_AVAILABLE = TRUE
    /\ files_metadata = <<>>
    /\ duplicate_groups = <<>>
    /\ gpc = "start"
    /\ PipelineIdle
    /\ UiIdle
    /\ DeleteIdle
    /\ WindowIdle

\* The call normalize_artists(artist_str).
NormalizeCall ==
    /\ na_result = <<>>
    /\ na_result' = <<normalize_artists(na_arg)>>
    /\ UNCHANGED <<windowVars, envVars, ex_path, ex_result, na_arg, groupVars,
                   pipelineVars, uiVars, deleteVars>>

SpecNormalize == NormalizeInit /\ [][NormalizeCall]_vars

(***************************************************************************)
(* Properties of normalize_artists (checked under SpecNormalize)           *)
(***************************************************************************)

\* C11: for an artist string "P feat. Q" of two plain names the call returns
\* the one-element set {p}, p the lower-case P; q is not a member.
C11_FeaturingStripped ==
    na_result # <<>> =>
        \A P \in PlainNames, Q \in PlainNames :
            na_arg = P \o S_feat_dot \o Q => na_result[1] = {lower(P)}

\* The plain ASCII spelling of a string: every accented letter replaced by
\* its base letter, the combining accent left out.
PlainSpelling(s) ==
    LET base(c) == CASE c = "e_acute" -> <<"e">> [] c = "E_acute" -> <<"E">>
                     [] c = "a_acute" -> <<"a">> [] c = "A_acute" -> <<"A">>
                     [] c = "combining_acute" -> <<>> [] OTHER -> <<c>>
        F[n \in 0..Len(s)] == IF n = 0 THEN <<>> ELSE F[n - 1] \o base(s[n])
    IN  F[Len(s)]

\* C12: the call returns the same set for a name with an accented letter and
\* for the name written with the plain base letter, in any letter case.
C12_DiacriticInsensitive ==
    na_result # <<>> =>
        /\ na_result[1] = normalize_artists(PlainSpelling(na_arg))
        /\ na_result[1] = normalize_artists(lower(PlainSpelling(na_arg)))

\* C19: normalising the sorted, comma-joined rendering of the set the call
\* returns gives that set again.
C19_NormalizeIdempotent ==
    na_result # <<>> =>
        normalize_artists(SortedJoin(na_result[1])) = na_result[1]

\* Whether the stat of the file succeeds and the decoding of its tags fails:
\* the record then has the error of the tag block.
TagDecodingFailed(meta, w) ==
    /\ ~safe_path_raises(w, system)
    /\ ~StatFails(w)
    /\ "metadata_error" \in DOMAIN meta

\* C13: when the stat of a file succeeds and the decoding of its tags fails at
\* any step, the record has success = TRUE, keeps the size and the timestamps
\* of the stat, and every field that comes from the tags is empty or at its
\* default; no emitted group has the file as a member.
C13_TagDecodeFailure ==
    \A n \in 1..Len(files_metadata) :
        TagDecodingFailed(files_metadata[n], disk[PathList[n]]) =>
            /\ files_metadata[n].success = TRUE
            /\ files_metadata[n].size_bytes = disk[PathList[n]].size_bytes
            /\ files_metadata[n].modified_date # Unknown
            /\ files_metadata[n].created_date # Unknown
            /\ \A k \in {"title", "contributing_artists", "raw_artists",
                         "normalized_artists_debug", "album", "year", "genre"} :
                  Get(files_metadata[n], k, <<>>) = <<>>
            /\ Get(files_metadata[n], "duration", 0) = 0
            /\ PathList[n] \notin GroupedPaths

\* C14: in a call with paths, the calls of progress_callback so far are
\* (1, total), (2, total), ... with total = len(file_paths), one call after
\* every record appended in the loop over the pool; when the call has
\* returned there were len(file_paths) calls, also when the pool failed after
\* tasks had finished and the sequential run took over.
C14_ProgressReporting ==
    /\ \A k \in 1..Len(progress) : progress[k] = <<k, Len(file_paths)>>
    /\ ppc = "collecting" =>
          Len(progress) = Len(metadata_list) /\ completed = Len(progress)
    /\ (ppc = "done" /\ file_paths # <<>>) =>
          Len(progress) = Len(file_paths)

\* A call has returned after the pool failed at a submit, when the task of an
\* earlier path had already finished; the sequential run made the calls.
C14_Witness ==
    /\ ppc = "done"
    /\ pool = "failed"
    /\ \E p \in DOMAIN fut : fut[p] = "returned"
    /\ Len(progress) = Len(file_paths)
    /\ Len(progress) >= 2

\* The position in the input of the record with a path.
PositionOf(path) ==
    CHOOSE i \in 1..Len(files_metadata) : files_metadata[i].file_path = path

\* Whether record j can join a group whose anchor is record i: equal base
\* titles, and artist sets that intersect or of which one holds the other.
JoinsAnchor(i, j) ==
    /\ BaseTitleOf(files_metadata[i]) = BaseTitleOf(files_metadata[j])
    /\ \/ ArtistSetOf(files_metadata[i]) \cap ArtistSetOf(files_metadata[j]) # {}
       \/ ArtistSetOf(files_metadata[i]) \subseteq ArtistSetOf(files_metadata[j])
       \/ ArtistSetOf(files_metadata[j]) \subseteq ArtistSetOf(files_metadata[i])

\* The candidate that claims candidate j: the first earlier candidate that
\* no one claimed and that j can join, or j itself when there is none (j is
\* then an anchor).
RECURSIVE OwnerOf(_)
OwnerOf(j) ==
    LET earlier == {i \in 1..(j - 1) :
                       /\ PassesPreprocessing(files_metadata[i])
                       /\ JoinsAnchor(i, j)
                       /\ OwnerOf(i) = i}
    IN  IF earlier = {} THEN j
        ELSE CHOOSE i \in earlier : \A k \in earlier : i <= k

\* The later candidates claimed by anchor a.
ClaimedBy(a) ==
    {j \in (a + 1)..Len(files_metadata) :
        PassesPreprocessing(files_metadata[j]) /\ OwnerOf(j) = a}

\* The paths of the records at a sequence of positions.
PathsAt(positions) ==
    [n \in 1..Len(positions) |-> files_metadata[positions[n]].file_path]

\* The label made from a record: its base title in title case, " - ", its
\* artists sorted and joined by ", ".
LabelOf(meta) ==
    title(BaseTitleOf(meta)) \o <<" ", "-", " ">> \o SortedJoin(ArtistSetOf(meta))

\* Whether an entry <<label, paths>> of the result is the group of anchor a.
IsGroupOfAnchor(entry, a) ==
    /\ PassesPreprocessing(files_metadata[a])
    /\ OwnerOf(a) = a
    /\ entry[2] = PathsAt(<<a>> \o Ascending(ClaimedBy(a)))
    /\ entry[1] = LabelOf(files_metadata[a])

\* C15: every group of the result is its anchor, the first candidate in
\* input order that no earlier group claimed, followed in input order by
\* exactly the later unclaimed candidates that have the anchor's base title
\* and an artist set that intersects the anchor's or holds it or is held by
\* it; candidates are compared with the anchor only, and the label is made
\* from the anchor's base title and artist set.
C15_AnchorFirstSinglePass ==
    gpc = "grouped" =>
        \A n \in 1..Len(duplicate_groups) :
            IsGroupOfAnchor(duplicate_groups[n],
                            PositionOf(duplicate_groups[n][2][1]))

\* C15 witness: a result with a group, from a list where a record that did
\* not join the anchor could have joined a member of the anchor's group.
C15_Witness ==
    /\ gpc = "grouped"
    /\ \E n \in 1..Len(duplicate_groups) :
          \E j, k \in 1..Len(files_metadata) :
              /\ files_metadata[j].file_path \in Range(duplicate_groups[n][2])
              /\ j < k
              /\ PassesPreprocessing(files_metadata[k])
              /\ JoinsAnchor(j, k)
              /\ ~JoinsAnchor(PositionOf(duplicate_groups[n][2][1]), k)
              /\ files_metadata[k].file_path \notin Range(duplicate_groups[n][2])

\* C16: the groups of the result are pairwise disjoint and no path stands
\* twice in a group: what one group claimed, later passes skip.
C16_GroupsDisjoint ==
    gpc = "grouped" =>
        /\ \A m, n \in 1..Len(duplicate_groups) :
              m # n => Range(duplicate_groups[m][2])
                          \cap Range(duplicate_groups[n][2]) = {}
        /\ \A n \in 1..Len(duplicate_groups) :
              \A k, l \in 1..Len(duplicate_groups[n][2]) :
                  k # l => duplicate_groups[n][2][k] # duplicate_groups[n][2][l]

\* C16 witness: two groups in the result, and a member of the first that the
\* anchor of the second could have taken had it not been claimed.
C16_Witness ==
    /\ gpc = "grouped"
    /\ Len(duplicate_groups) >= 2
    /\ \E m, n \in 1..Len(duplicate_groups) :
          \E j \in 1..Len(files_metadata) :
              /\ m # n
              /\ files_metadata[j].file_path \in Range(duplicate_groups[m][2])
              /\ PositionOf(duplicate_groups[n][2][1]) < j
              /\ JoinsAnchor(PositionOf(duplicate_groups[n][2][1]), j)

\* The orderings of a list of n records: the one-to-one maps of 1..n.
Orderings(n) ==
    {f \in [1..n -> 1..n] : \A i, j \in 1..n : i # j => f[i] # f[j]}

\* The records in the order f.
Reordered(records, f) == [k \in 1..Len(records) |-> records[f[k]]]

\* The groups of a result, each read as a set of paths.
PathSets(result) == {Range(result[n][2]) : n \in 1..Len(result)}

\* C17: for any two orderings of the same list of records the result has the
\* same groups, each read as a set of paths: the order of the input changes
\* the order of the members of a group, its anchor and its label, never
\* which records are grouped together.
C17_InputOrderRobust ==
    gpc = "grouped" =>
        \A f \in Orderings(Len(files_metadata)) :
            PathSets(group_by_metadata(Reordered(files_metadata, f)))
                = PathSets(duplicate_groups)

\* Later records j and k that can both join the first record of the list,
\* a candidate, and whose artist sets are disjoint.
DisjointFollowers(j, k) ==
    /\ 1 < j /\ j < k
    /\ PassesPreprocessing(files_metadata[1])
    /\ PassesPreprocessing(files_metadata[j])
    /\ PassesPreprocessing(files_metadata[k])
    /\ JoinsAnchor(1, j)
    /\ JoinsAnchor(1, k)
    /\ ArtistSetOf(files_metadata[j]) \cap ArtistSetOf(files_metadata[k]) = {}

\* Whether group n of the result has record a as its first member and
\* records j and k as members.
GroupHolds(n, a, j, k) ==
    /\ duplicate_groups[n][2][1] = files_metadata[a].file_path
    /\ files_metadata[j].file_path \in Range(duplicate_groups[n][2])
    /\ files_metadata[k].file_path \in Range(duplicate_groups[n][2])

\* C18: grouping is not transitive: there are lists for which a group of the
\* result holds two members that each match the anchor and do not match
\* each other. Such are the lists whose first record is matched by two later
\* records with disjoint artist sets: the two fail the test of lines 528-537
\* against each other, and both are members of the group of the first record
\* (which is in the result unless a later group took its name).
C18_NotTransitive ==
    gpc = "grouped" =>
        \A j, k \in 1..Len(files_metadata) :
            DisjointFollowers(j, k) =>
                /\ ~Matches(FileInfo(files_metadata[j]), FileInfo(files_metadata[k]))
                /\ \/ \E n \in 1..Len(duplicate_groups) : GroupHolds(n, 1, j, k)
                   \/ NameTakenLater(1)

\* C18 witness: a result with a group of an anchor and two more members
\* that match the anchor and not each other.
C18_Witness ==
    /\ gpc = "grouped"
    /\ \E j, k \in 1..Len(files_metadata) :
          /\ DisjointFollowers(j, k)
          /\ ~JoinsAnchor(j, k)
          /\ \E n \in 1..Len(duplicate_groups) : GroupHolds(n, 1, j, k)

(***************************************************************************)
(* group_by_metadata on lists with records it cannot group                 *)
(***************************************************************************)

\* The most records of a list.
MaxRecords == 3

RecordCounts == {n \in 1..MaxRecords : n <= Len(PathList)}

\* The files behind the records: two that can be grouped, one whose stat
\* fails, one without a title, one whose title has no base title, one whose
\* artist normalises to no name.
RecordWorlds ==
    { AudioFile(Tag(S_I, S_A, <<>>, <<>>, 400), 4 * MiB),
      AudioFile(Tag(S_I_x, S_A_and_B, <<>>, <<>>, 400), 4 * MiB),
      [AudioFile(Tag(S_I, S_A, <<>>, <<>>, 400), 4 * MiB)
          EXCEPT !.stat = "oserror"],
      AudioFile(Tag(<<>>, S_A, <<>>, <<>>, 400), 4 * MiB),
      AudioFile(Tag(S_x, S_A, <<>>, <<>>, 400), 4 * MiB),
      AudioFile(Tag(S_I, S_dash, <<>>, <<>>, 400), 4 * MiB) }

\* The record of the file behind a path, as extract_file_metadata returns
\* it, or the same record without its path.
RecordOf(path, pathless) ==
    IF path \in pathless
    THEN [extract_file_metadata(path, disk[path], system, METADATA_AVAILABLE)
             EXCEPT !.file_path = ""]
    ELSE extract_file_metadata(path, disk[path], system, METADATA_AVAILABLE)

\* The lists handed to group_by_metadata: records of files read with or
\* without tinytag, some of them without a path.
RecordsInit ==
    /\ \E n \in RecordCounts : disk \in [FirstPaths(n) -> RecordWorlds]
    /\ system = "Linux"
    /\ METADATA_AVAILABLE \in BOOLEAN
    /\ \E pathless \in SUBSET DOMAIN disk :
          files_metadata = [k \in 1..Cardinality(DOMAIN disk) |->
                               RecordOf(PathList[k], pathless)]
    /\ duplicate_groups = <<>>
    /\ gpc = "scanned"
    /\ ExtractIdle
    /\ PipelineIdle
    /\ UiIdle
    /\ DeleteIdle
    /\ WindowIdle

SpecRecords == RecordsInit /\ [][GroupDuplicates]_vars

\* Whether a record is one the grouping has to leave out: it failed, or has
\* no title, no path, no base title or no artist.
Ungroupable(meta) ==
    \/ Get(meta, "success", FALSE) = FALSE
    \/ Get(meta, "title", <<>>) = <<>>
    \/ Get(meta, "file_path", "") = ""
    \/ BaseTitleOf(meta) = <<>>
    \/ ArtistSetOf(meta) = {}

\* The paths of the members of the groups of the result, first members
\* included.
MemberPaths ==
    UNION {Range(duplicate_groups[n][2]) : n \in 1..Len(duplicate_groups)}

\* C20: group_by_metadata returns a result for every list, and no member of
\* a group of the result is the path of a record that failed or has no
\* title, no path, no base title after normalisation or no artist after
\* normalisation: such a record is no anchor and no other member. When no
\* record has tags (tinytag is missing) the result has no group.
C20_UngroupableExcluded ==
    gpc = "grouped" =>
        /\ "" \notin MemberPaths
        /\ \A n \in 1..Len(files_metadata) :
              Ungroupable(files_metadata[n]) =>
                  files_metadata[n].file_path \notin MemberPaths
        /\ (\A n \in 1..Len(files_metadata) :
               Get(files_metadata[n], "title", <<>>) = <<>>)
              => duplicate_groups = <<>>

\* C20 witness: a result with a group, from a list whose first record was
\* read with its tags and has a title, a base title and a path but no artist
\* after normalisation.
C20_Witness ==
    /\ gpc = "grouped"
    /\ duplicate_groups # <<>>
    /\ files_metadata[1].success
    /\ files_metadata[1].title # <<>>
    /\ files_metadata[1].file_path # ""
    /\ BaseTitleOf(files_metadata[1]) # <<>>
    /\ ArtistSetOf(files_metadata[1]) = {}


(***************************************************************************)
(* The subset test of the match (checked under SpecGroup)                  *)
(***************************************************************************)

\* The match without its subset test: equal base titles and artist sets
\* that intersect.
JoinsByOverlap(i, j) ==
    /\ BaseTitleOf(files_metadata[i]) = BaseTitleOf(files_metadata[j])
    /\ ArtistSetOf(files_metadata[i]) \cap ArtistSetOf(files_metadata[j]) # {}

\* The candidate that claims candidate j when candidates are matched without
\* the subset test: the first earlier anchor that j can join, or j itself.
RECURSIVE OverlapOwnerOf(_)
OverlapOwnerOf(j) ==
    LET earlier == {i \in 1..(j - 1) :
                       /\ PassesPreprocessing(files_metadata[i])
                       /\ JoinsByOverlap(i, j)
                       /\ OverlapOwnerOf(i) = i}
    IN  IF earlier = {} THEN j
        ELSE CHOOSE i \in earlier : \A k \in earlier : i <= k

\* The later candidates that anchor a claims without the subset test.
OverlapClaimedBy(a) ==
    {j \in (a + 1)..Len(files_metadata) :
        PassesPreprocessing(files_metadata[j]) /\ OverlapOwnerOf(j) = a}

\* The positions of the records that pass preprocessing.
CandidatePositions ==
    {i \in 1..Len(files_metadata) : PassesPreprocessing(files_metadata[i])}

\* C23: every candidate has an artist set that is not empty, so for every
\* pair of candidates the match test of lines 528-537 decides as 'equal base
\* titles and intersecting artist sets' does, and the result holds the groups
\* that grouping without the subset test makes: every group of the result is
\* an anchor of that grouping followed by what it claims, and every such
\* anchor that claims a candidate has its label in the result.
C23_SubsetTestRedundant ==
    gpc = "grouped" =>
        /\ \A i \in CandidatePositions : ArtistSetOf(files_metadata[i]) # {}
        /\ \A i, j \in CandidatePositions :
              Matches(FileInfo(files_metadata[i]), FileInfo(files_metadata[j]))
                 <=> JoinsByOverlap(i, j)
        /\ \A n \in 1..Len(duplicate_groups) :
              LET a == PositionOf(duplicate_groups[n][2][1])
              IN  /\ a \in CandidatePositions
                  /\ OverlapOwnerOf(a) = a
                  /\ duplicate_groups[n][2] =
                        PathsAt(<<a>> \o Ascending(OverlapClaimedBy(a)))
        /\ \A a \in CandidatePositions :
              (OverlapOwnerOf(a) = a /\ OverlapClaimedBy(a) # {}) =>
                  \E n \in 1..Len(duplicate_groups) :
                      duplicate_groups[n][1] = LabelOf(files_metadata[a])

\* C23 witness: a group whose anchor has an artist set that is a proper part
\* of a member's, so that the subset test holds for the pair, in a list with
\* a record that has the anchor's base title and no artist after
\* normalisation.
C23_Witness ==
    /\ gpc = "grouped"
    /\ \E n \in 1..Len(duplicate_groups) :
          \E j \in 1..Len(files_metadata) :
              LET a == PositionOf(duplicate_groups[n][2][1])
              IN  /\ files_metadata[j].file_path \in Range(duplicate_groups[n][2])
                  /\ ArtistSetOf(files_metadata[a]) \subseteq
                        ArtistSetOf(files_metadata[j])
                  /\ ArtistSetOf(files_metadata[a]) #
                        ArtistSetOf(files_metadata[j])
                  /\ \E k \in 1..Len(files_metadata) :
                        /\ HasTitleAndPath(files_metadata[k])
                        /\ BaseTitleOf(files_metadata[k]) =
                              BaseTitleOf(files_metadata[a])
                        /\ ArtistSetOf(files_metadata[k]) = {}

(***************************************************************************)
(* DuplicateDetector.get_metadata_differences                              *)
(***************************************************************************)

\* Lines 584-586: the fields that are compared, in their order.
compare_fields ==
    <<"title", "contributing_artists", "album_artist", "raw_artists",
      "normalized_artists_debug", "year", "quality", "modified_date",
      "created_date">>

\* Lines 596-597: the value of a field as it is compared: '' for a field
\* that is missing, empty or 'Unknown' (none of these fields is a number in
\* a record of extract_file_metadata). The quality is "Lossy" or "Lossless",
\* the other fields are strings of characters.
str_value(metadata, field) ==
    IF field = "quality" THEN Get(metadata, "quality", "")
    ELSE IF Get(metadata, field, <<>>) \in {<<>>, Unknown} THEN <<>>
         ELSE Get(metadata, field, <<>>)

\* Lines 623-624: the value of a field as it is shown.
display_value(metadata, field) ==
    IF field = "quality" THEN Get(metadata, "quality", "Unknown")
    ELSE IF Get(metadata, field, <<>>) \in {<<>>, Unknown} THEN Unknown
         ELSE Get(metadata, field, <<>>)

\* Mutant of FieldDiffers: a field with any value at all is reported.
FieldDiffers_Always(all_metadata, field) ==
    Cardinality({str_value(all_metadata[n], field) :
                    n \in 1..Len(all_metadata)}) > 0

\* Lines 593-601: whether a field gets into differing_fields.
FieldDiffers(all_metadata, field) ==
    Cardinality({str_value(all_metadata[n], field) :
                    n \in 1..Len(all_metadata)}) > 1

\* Lines 571-577: the index of the first record with the selected path (0
\* when there is none).
selected_index(all_metadata, selected_file_path) ==
    IF \E i \in 1..Len(all_metadata) :
           all_metadata[i].file_path = selected_file_path
    THEN CHOOSE i \in 1..Len(all_metadata) :
             /\ all_metadata[i].file_path = selected_file_path
             /\ \A k \in 1..(i - 1) :
                   all_metadata[k].file_path # selected_file_path
    ELSE 0

\* Lines 619-627: the line of a file under the label of a field.
ValueLine(metadata, field, marked) ==
    <<[kind |-> "value", prefix |-> IF marked THEN "marker" ELSE "blanks",
       display_name |-> PathName(metadata.file_path), field |-> field,
       display_value |-> display_value(metadata, field)],
      IF field = "title" THEN "title_bold" ELSE "None">>

\* Lines 612-629: the label of a field, a line for every file, an empty line.
FieldLines(all_metadata, field, selected) ==
    <<<<[kind |-> "label", field |-> field], "None">>>>
    \o [i \in 1..Len(all_metadata) |->
           ValueLine(all_metadata[i], field, i = selected)]
    \o <<<<[kind |-> "newline"], "None">>>>

RECURSIVE AllFieldLines(_, _, _)
AllFieldLines(all_metadata, fields, selected) ==
    IF fields = <<>> THEN <<>>
    ELSE FieldLines(all_metadata, Head(fields), selected)
         \o AllFieldLines(all_metadata, Tail(fields), selected)

\* get_metadata_differences(selected_file_path, group_files), lines 563-631;
\* all_metadata holds the records of lines 566-569, extracted at the call.
\* The result is a list of <<text, tag>>.
get_metadata_differences(selected_file_path, all_metadata, available) ==
    IF ~available
    THEN <<<<[kind |-> "not_available"], "None">>>>
    ELSE IF selected_index(all_metadata, selected_file_path) = 0
    THEN <<<<[kind |-> "not_found"], "None">>>>
    ELSE IF SelectSeq(compare_fields,
                      LAMBDA f : FieldDiffers(all_metadata, f)) = <<>>
    THEN <<<<[kind |-> "selected", name |-> PathName(selected_file_path)],
             "None">>,
           <<[kind |-> "no_differences"], "None">>,
           <<[kind |-> "identical"], "None">>>>
    ELSE <<<<[kind |-> "selected", name |-> PathName(selected_file_path)],
             "None">>,
           <<[kind |-> "rule"], "None">>>>
         \o AllFieldLines(all_metadata,
                SelectSeq(compare_fields,
                          LAMBDA f : FieldDiffers(all_metadata, f)),
                selected_index(all_metadata, selected_file_path))

\* The most files of a scan whose groups are compared.
MaxCompared == 3

ComparedCounts == {n \in 1..MaxCompared : n <= Len(PathList)}

S_2020 == <<"2", "0", "2", "0">>

\* The files of these scans: a file, the same file with another title,
\* artist and album artist, with a year and a later change, and with a
\* modification time the platform cannot show.
DiffWorlds ==
    { AudioFile(Tag(S_I, S_A, <<>>, <<>>, 400), 4 * MiB),
      AudioFile(Tag(S_I_x, S_A_and_B, S_B, <<>>, 400), 4 * MiB),
      [AudioFile(Tag(S_I, S_A, <<>>, <<>>, 400), 4 * MiB)
          EXCEPT !.tag.year = S_2020, !.mtime = 25],
      [AudioFile(Tag(S_I, S_A, <<>>, <<>>, 400), 4 * MiB)
          EXCEPT !.mtime = 0 - 2] }

DiffInit ==
    /\ \E n \in ComparedCounts : disk \in [FirstPaths(n) -> DiffWorlds]
    /\ system = "Linux"
    /\ METADATA_AVAILABLE = TRUE
    /\ files_metadata = <<>>
    /\ duplicate_groups = <<>>
    /\ gpc = "start"
    /\ ExtractIdle
    /\ PipelineIdle
    /\ UiIdle
    /\ DeleteIdle
    /\ WindowIdle

\* on_tree_select(event), lines 968-991, on a file item of the tree: the
\* differences of the file to the files of its group are written to
\* metadata_text (kept here with the arguments of the call).
OnTreeSelect ==
    /\ gpc \in {"listed", "compared"}
    /\ \E g \in 1..Len(tree) : \E n \in 1..Len(tree[g].files) :
          metadata_text' =
              <<[file_path |-> tree[g].files[n].file_path,
                 group_files |-> duplicate_groups[g][2],
                 differences |->
                     get_metadata_differences(
                         tree[g].files[n].file_path,
                         process_files_sequential(duplicate_groups[g][2]),
                         METADATA_AVAILABLE)]>>
    /\ gpc' = "compared"
    /\ UNCHANGED <<envVars, extractVars, files_metadata, duplicate_groups,
                   pipelineVars, uiVars, deleteVars, status_var, scan_button,
                   scan_threads, thread_pcs, after_queue, scans_started,
                   shown_scans, stored_scan>>

DiffNext ==
    \/ ScanFiles
    \/ GroupDuplicates
    \/ PopulateTree
    \/ FileDisappears
    \/ OnTreeSelect

SpecDiff == DiffInit /\ [][DiffNext]_vars

(***************************************************************************)
(* Properties of the difference report (checked under SpecDiff)            *)
(***************************************************************************)

\* The value a record has for a field, with a missing, empty or 'Unknown'
\* value taken as the empty string.
ComparedValue(record, field) ==
    IF field = "quality"
    THEN (IF Get(record, field, "") = "Unknown" THEN ""
          ELSE Get(record, field, ""))
    ELSE (IF Get(record, field, <<>>) = Unknown THEN <<>>
          ELSE Get(record, field, <<>>))

\* Whether the records of the members of a group have more than one value
\* for a field.
MembersDiffer(records, field) ==
    \E m, n \in 1..Len(records) :
        ComparedValue(records[m], field) # ComparedValue(records[n], field)

\* The positions of the lines of a report that are labels of fields.
LabelPositions(lines) == {k \in 1..Len(lines) : lines[k][1].kind = "label"}

\* The positions of the lines of a report that show the value of a file.
ValuePositions(lines) == {k \in 1..Len(lines) : lines[k][1].kind = "value"}

\* Whether the label at position k of a report is followed by one line for
\* every member of the group, in order, and the line of the selected file
\* and no other has the marker; the line after them is not the line of a
\* file.
FollowedByMembers(lines, k, group_files, selected) ==
    /\ k + Len(group_files) <= Len(lines)
    /\ \A n \in 1..Len(group_files) :
          /\ lines[k + n][1].kind = "value"
          /\ lines[k + n][1].field = lines[k][1].field
          /\ lines[k + n][1].display_name = PathName(group_files[n])
          /\ (lines[k + n][1].prefix = "marker") <=> (group_files[n] = selected)
    /\ k + Len(group_files) < Len(lines) =>
          lines[k + Len(group_files) + 1][1].kind # "value"

\* Whether a report is the one C21 describes, for the records the files of
\* the group have at the call.
ReportAsClaimed(lines, group_files, selected, records) ==
    /\ \A n \in 1..Len(compare_fields) :
          MembersDiffer(records, compare_fields[n])
              <=> \E k \in LabelPositions(lines) :
                      lines[k][1].field = compare_fields[n]
    /\ \A j, k \in LabelPositions(lines) :
          lines[j][1].field = lines[k][1].field => j = k
    /\ \A k \in LabelPositions(lines) :
          FollowedByMembers(lines, k, group_files, selected)
    /\ Cardinality(ValuePositions(lines))
          = Cardinality(LabelPositions(lines)) * Len(group_files)
    /\ (\A n \in 1..Len(compare_fields) :
           ~MembersDiffer(records, compare_fields[n]))
          => /\ Len(lines) = 3
             /\ lines[1][1].kind = "selected"
             /\ lines[2][1].kind = "no_differences"
             /\ lines[3][1].kind = "identical"

MaxShown == 2

\* The most scans started in a run of the window.
MaxScans == 2

ShownCounts == {n \in 0..MaxShown : n <= Len(PathList)}

\* The files of the directory: one title and artist, in two lengths.
WindowWorlds ==
    { AudioFile(Tag(S_I, S_A, <<>>, <<>>, 400), 4 * MiB),
      AudioFile(Tag(S_I, S_A, <<>>, <<>>, 700), 4 * MiB) }

\* Mutant of ButtonWhileScanning: the button stays usable during a scan.
ButtonWhileScanning_Normal == "normal"

\* Line 849: the state of the scan button during a scan.
ButtonWhileScanning == "disabled"

\* Mutant of ClearedSelection: a scan keeps the selection.
ClearedSelection_Kept(selection) == selection

\* Line 840: self.selected_files.clear()
ClearedSelection(selection) == {}

\* Line 853: the thread started for scan number k, at the start of
\* _scan_worker.
NewThread(k) ==
    [scan |-> k, audio_files |-> <<>>, files_metadata |-> <<>>]

\* scan_duplicates(), lines 825-854, called with the selection as it is:
\* without a valid directory or without tinytag nothing changes; otherwise
\* the results are cleared, the button is disabled and a thread is started.
scan_duplicates(directory_ok, selection) ==
    IF ~directory_ok \/ ~METADATA_AVAILABLE
    THEN /\ selected_files' = selection
         /\ UNCHANGED <<tree, duplicate_groups, status_var, scan_button,
                        scan_threads, thread_pcs, scans_started, shown_scans,
                        stored_scan>>
    ELSE /\ tree' = <<>>
         /\ duplicate_groups' = <<>>
         /\ selected_files' = ClearedSelection(selection)
         /\ status_var' = "Scanning for duplicates..."
         /\ scan_button' = ButtonWhileScanning
         /\ scan_threads' = Append(scan_threads, NewThread(scans_started + 1))
         /\ thread_pcs' = Append(thread_pcs, "find")
         /\ scans_started' = scans_started + 1
         /\ shown_scans' = {}
         /\ stored_scan' = 0

WindowInit ==
    /\ \E n \in ShownCounts : disk \in [FirstPaths(n) -> WindowWorlds]
    /\ system = "Linux"
    /\ METADATA_AVAILABLE \in BOOLEAN
    /\ files_metadata = <<>>
    /\ duplicate_groups = <<>>
    /\ gpc = "listed"
    /\ ExtractIdle
    /\ PipelineIdle
    /\ UiIdle
    /\ DeleteIdle
    /\ WindowIdle

\* The operator presses the scan button (line 708): Tk calls
\* scan_duplicates when the button is not disabled and no dialog is open.
PressScanButton ==
    /\ scan_button = "normal"
    /\ dpc = "idle"
    /\ scans_started < MaxScans
    /\ \E directory_ok \in BOOLEAN :
          scan_duplicates(directory_ok, selected_files)
    /\ UNCHANGED <<envVars, extractVars, files_metadata, gpc, pipelineVars,
                   deleteVars, after_queue, metadata_text>>

\* The threads but the i-th, which has returned.
WithoutThread(threads, i) ==
    SubSeq(threads, 1, i - 1) \o SubSeq(threads, i + 1, Len(threads))

\* Mutant of NoFilesCallbacks: the worker returns without a callback.
NoFilesCallbacks_None(k) == <<>>

\* Lines 864-865: what the worker hands to root.after when no audio file
\* was found.
NoFilesCallbacks(k) ==
    <<[call |-> "_scan_complete", message |-> "No audio files found",
       scan |-> k]>>

\* Lines 892-895: what the worker hands to root.after when an exception
\* reached its handler.
ErrorCallbacks(k) ==
    <<[call |-> "_scan_complete", message |-> "Error during scan",
       scan |-> k]>>

\* Line 890: what the worker hands to root.after with its groups.
ResultCallbacks(k, duplicates) ==
    <<[call |-> "_populate_tree", duplicates |-> duplicates, scan |-> k]>>

\* _scan_worker, lines 859-865, for a thread: find_audio_files lists the
\* files, or meets a directory it may not read (what it has is returned,
\* here nothing), or raises another OSError, which the handler of the worker
\* reports.
WorkerFindsFiles ==
    \E i \in 1..Len(scan_threads) :
        /\ thread_pcs[i] = "find"
        /\ \E walk \in {"listed", "permission_error", "os_error"} :
              IF walk = "listed" /\ find_audio_files # <<>>
              THEN /\ thread_pcs' = [thread_pcs EXCEPT ![i] = "process"]
                   /\ scan_threads' =
                          [scan_threads EXCEPT ![i].audio_files = find_audio_files]
                   /\ UNCHANGED after_queue
              ELSE /\ thread_pcs' = WithoutThread(thread_pcs, i)
                   /\ scan_threads' = WithoutThread(scan_threads, i)
                   /\ after_queue' = after_queue \o
                          (IF walk = "os_error"
                           THEN ErrorCallbacks(scan_threads[i].scan)
                           ELSE NoFilesCallbacks(scan_threads[i].scan))
        /\ UNCHANGED <<envVars, extractVars, groupVars, pipelineVars, uiVars,
                       deleteVars, status_var, scan_button, scans_started,
                       shown_scans, stored_scan, metadata_text>>

\* _scan_worker, lines 867-877: the records of the files, as
\* process_files_parallel returns them when every extraction returns.
WorkerProcessesFiles ==
    \E i \in 1..Len(scan_threads) :
        /\ thread_pcs[i] = "process"
        /\ thread_pcs' = [thread_pcs EXCEPT ![i] = "group"]
        /\ scan_threads' =
              [scan_threads EXCEPT
                  ![i].files_metadata =
                      process_files_sequential(scan_threads[i].audio_files)]
        /\ UNCHANGED <<envVars, extractVars, groupVars, pipelineVars, uiVars,
                       deleteVars, status_var, scan_button, after_queue,
                       scans_started, shown_scans, stored_scan, metadata_text>>

\* _scan_worker, lines 879-890: the groups are stored in
\* self.duplicate_groups and handed to _populate_tree; the thread returns.
WorkerGroupsFiles ==
    \E i \in 1..Len(scan_threads) :
        /\ thread_pcs[i] = "group"
        /\ thread_pcs' = WithoutThread(thread_pcs, i)
        /\ duplicate_groups' = group_by_metadata(scan_threads[i].files_metadata)
        /\ stored_scan' = scan_threads[i].scan
        /\ after_queue' = after_queue \o
              ResultCallbacks(scan_threads[i].scan, duplicate_groups')
        /\ scan_threads' = WithoutThread(scan_threads, i)
        /\ UNCHANGED <<envVars, extractVars, files_metadata, gpc, pipelineVars,
                       uiVars, deleteVars, status_var, scan_button,
                       scans_started, shown_scans, metadata_text>>

\* The main loop runs the next callback of root.after: _populate_tree
\* (lines 897-940) or _scan_complete (lines 942-947). It does so also while
\* a message box is open, and not while delete_selected writes and removes.
RunCallback ==
    /\ after_queue # <<>>
    /\ dpc \in {"idle", "asking", "reporting"}
    /\ after_queue' = Tail(after_queue)
    /\ scan_button' = "normal"
    /\ IF Head(after_queue).call = "_scan_complete"
       THEN /\ status_var' = Head(after_queue).message
            /\ UNCHANGED <<tree, shown_scans>>
       ELSE IF Head(after_queue).duplicates = <<>>
       THEN /\ status_var' = "No duplicates found!"
            /\ UNCHANGED <<tree, shown_scans>>
       ELSE /\ status_var' = "Found duplicate groups"
            /\ tree' = tree \o GroupItems(Head(after_queue).duplicates)
            /\ shown_scans' = shown_scans \cup {Head(after_queue).scan}
    /\ UNCHANGED <<envVars, extractVars, groupVars, pipelineVars,
                   selected_files, deleteVars, scan_threads, thread_pcs,
                   scans_started,
                   stored_scan, metadata_text>>

\* delete_selected(), lines 1042-1058, from the button or the Delete key:
\* with a selection, the message box asks the operator.
AskDeletion ==
    /\ dpc = "idle"
    /\ selected_files # {}
    /\ scans_started < MaxScans
    /\ dpc' = "asking"
    /\ UNCHANGED <<windowVars, envVars, extractVars, groupVars, pipelineVars,
                   uiVars, backup, to_delete, deleted_count, failed_deletions,
                   removed>>

\* Lines 1060-1061: the operator says no or yes.
AnswerDeletion ==
    /\ dpc = "asking"
    /\ \E confirm \in BOOLEAN : dpc' = IF confirm THEN "confirmed" ELSE "idle"
    /\ UNCHANGED <<windowVars, envVars, extractVars, groupVars, pipelineVars,
                   uiVars, backup, to_delete, deleted_count, failed_deletions,
                   removed>>

\* Lines 1069-1081: delete_files has returned and the message box shows the
\* result.
ShowDeletionResults ==
    /\ dpc = "deleting"
    /\ to_delete = {}
    /\ dpc' = "reporting"
    /\ UNCHANGED <<windowVars, envVars, extractVars, groupVars, pipelineVars,
                   uiVars, backup, to_delete, deleted_count, failed_deletions,
                   removed>>

\* Lines 1083-1086: the message box is closed, the selection is cleared and
\* scan_duplicates is called.
RescanAfterDeletion ==
    /\ dpc = "reporting"
    /\ dpc' = "idle"
    /\ backup' = <<>>
    /\ to_delete' = {}
    /\ deleted_count' = 0
    /\ failed_deletions' = <<>>
    /\ removed' = {}
    /\ \E directory_ok \in BOOLEAN : scan_duplicates(directory_ok, {})
    /\ UNCHANGED <<envVars, extractVars, files_metadata, gpc, pipelineVars,
                   after_queue, metadata_text>>

WindowNext ==
    \/ PressScanButton
    \/ WorkerFindsFiles
    \/ WorkerProcessesFiles
    \/ WorkerGroupsFiles
    \/ RunCallback
    \/ ToggleSelection
    \/ AutoSelectLongest
    \/ FileDisappears
    \/ AskDeletion
    \/ AnswerDeletion
    \/ CreateBackupList
    \/ RemoveNext
    \/ ShowDeletionResults
    \/ RescanAfterDeletion

SpecWindow == WindowInit /\ [][WindowNext]_vars

\* A step of _scan_worker as thread_pcs shows it: a thread that stands at
\* pc goes on to one of the places in next or returns. Of the steps of
\* WindowNext these are the steps of the worker actions.
ThreadStep(pc, next) ==
    \E i \in 1..Len(thread_pcs) :
        /\ thread_pcs[i] = pc
        /\ \/ \E n \in next : thread_pcs' = [thread_pcs EXCEPT ![i] = n]
           \/ thread_pcs' = WithoutThread(thread_pcs, i)

\* A step of the main loop as after_queue shows it: the first callback is
\* run. Of the steps of WindowNext these are the steps of RunCallback.
CallbackStep ==
    /\ after_queue # <<>>
    /\ dpc \in {"idle", "asking", "reporting"}
    /\ after_queue' = Tail(after_queue)

\* The scheduler runs every thread, and the main loop runs the waiting
\* callbacks and goes on with delete_selected once the operator has answered.
\* (The conditions on the workers and on the callbacks are those of weak
\* fairness of WorkerFindsFiles, WorkerProcessesFiles, WorkerGroupsFiles and
\* RunCallback, stated on the variable each of them moves.)
SpecWindowFair ==
    /\ SpecWindow
    /\ WF_thread_pcs(ThreadStep("find", {"process"}))
    /\ WF_thread_pcs(ThreadStep("process", {"group"}))
    /\ WF_thread_pcs(ThreadStep("group", {}))
    /\ WF_after_queue(CallbackStep)
    /\ WF_vars(CreateBackupList)
    /\ WF_vars(RemoveNext)
    /\ WF_vars(ShowDeletionResults)

(***************************************************************************)
(* Properties of the window (checked under SpecWindow)                     *)
(***************************************************************************)

\* A scan is in progress: its thread has not returned, or its callback has
\* not run.
ScanInProgress == scan_threads # <<>> \/ after_queue # <<>>

\* The paths of the file items of the tree.
TreePaths ==
    UNION {{tree[g].files[n].file_path : n \in 1..Len(tree[g].files)} :
              g \in 1..Len(tree)}

\* C22 as stated: the operator can start a new scan while an earlier scan
\* is in progress (whenever no dialog is open), the earlier scan is then
\* abandoned, and the groups in the tree and in self.duplicate_groups come
\* from the latest scan only.
C22_Original ==
    /\ (ScanInProgress /\ dpc = "idle" /\ scans_started < MaxScans
           /\ METADATA_AVAILABLE)
          => ENABLED PressScanButton
    /\ shown_scans \subseteq {scans_started}
    /\ stored_scan \in {0, scans_started}

\* C22 (amended): a new scan cannot be started while a scan is in progress:
\* from the start of a scan until its callback has run the scan button is
\* disabled and the tree and the selection are empty, so that neither the
\* button nor delete_selected can start a scan; at most one scan is ever in
\* progress, none is abandoned, and the groups in the tree and in
\* self.duplicate_groups come from the scan started last.
C22_NoOverlappingScans ==
    /\ Len(scan_threads) + Len(after_queue) <= 1
    /\ ScanInProgress =>
          /\ scan_button = "disabled"
          /\ tree = <<>>
          /\ selected_files = {}
          /\ dpc = "idle"
          /\ ~ENABLED PressScanButton
          /\ ~ENABLED AskDeletion
          /\ ~ENABLED RescanAfterDeletion
    /\ shown_scans \subseteq {scans_started}
    /\ stored_scan \in {0, scans_started}

\* C22 witness: the groups of a second scan stand in the tree, the scan
\* having been started after the groups of the first scan had been shown
\* and a file had been removed.
C22_Witness ==
    /\ scans_started = 2
    /\ shown_scans = {2}
    /\ stored_scan = 2
    /\ tree # <<>>
    /\ ~ScanInProgress

\* C24: the selection holds only paths of file items of the tree, which are
\* members of the groups of the scan shown last (those of
\* self.duplicate_groups); the paths delete_files is called with are such
\* paths too. A step that starts a scan leaves the selection empty, and so
\* does the step that ends a confirmed deletion.
C24_SelectionWithinShownGroups ==
    /\ [](/\ selected_files \subseteq TreePaths
          /\ tree # <<>> =>
                /\ TreePaths \subseteq MemberPaths
                /\ shown_scans = {scans_started}
                /\ stored_scan = scans_started
          /\ dpc = "deleting" => to_delete \subseteq TreePaths)
    /\ [][scans_started' # scans_started => selected_files' = {}]_vars
    /\ [][(dpc = "reporting" /\ dpc' = "idle") => selected_files' = {}]_vars

\* C24 witness: delete_files is at work on a selection of which a file has
\* gone from the directory since the scan that showed it.
C24_Witness ==
    /\ dpc = "deleting"
    /\ to_delete # {}
    /\ to_delete \subseteq TreePaths
    /\ \E p \in to_delete : ~disk[p].exists
    /\ scans_started = 1

\* The endings of a scan, as the status line names them: no audio file, an
\* error, and the groups shown (or the notice that there are none).
ScanEndings ==
    {"No audio files found", "Error during scan", "No duplicates found!",
     "Found duplicate groups"}

\* C25: provided every extraction returns, a scan that has disabled the scan
\* button comes to one of its endings, and with the ending the button can be
\* pressed again; while the button is disabled no thread is started.
C25_EveryScanEnds ==
    /\ [](scan_button = "disabled" =>
             <>(scan_button = "normal" /\ status_var \in ScanEndings))
    /\ [][scan_button = "disabled" => scans_started' = scans_started]_vars

\* C25 witness: a scan has ended with an error and the button can be
\* pressed again.
C25_Witness ==
    /\ scans_started >= 1
    /\ ~ScanInProgress
    /\ scan_button = "normal"
    /\ status_var = "Error during scan"

====
